---- MODULE Spec2Model ----
(***************************************************************************)
(* Message delivery and session core of the Hyperware chat process         *)
(* (src/chat/src/lib.rs): the message status machine, chat-id              *)
(* normalisation, the per-counterparty delivery queue with its background  *)
(* sweep and announce-triggered flush, and the P2P handlers, for a system  *)
(* of two nodes.                                                           *)
(***************************************************************************)
EXTENDS Integers, Sequences, FiniteSets, TLC

VARIABLES
  chats,           \* [Node -> [chat id -> Chat]]          ChatState.chats
  delivery_queue,  \* [Node -> [identity -> Seq(message)]] ChatState.delivery_queue
  queue_lock,      \* [Node -> "free" or who holds the guard of delivery_queue's Mutex]
  ws_connections,  \* [Node -> [channel -> identity]]      ChatState.ws_connections
  online_nodes,    \* [Node -> set of identities]          ChatState.online_nodes
  browser_connections, \* [Node -> [chat key -> channel]]  ChatState.browser_connections
  chat_keys,       \* [Node -> [key -> ChatKey]]            ChatState.chat_keys
  active_connections, \* [Node -> set of channels]         ChatState.active_connections
  settings,        \* [Node -> Settings]                    ChatState.settings
  tasks,           \* futures that are awaiting an RPC (spawned tasks and handlers)
  reachable,       \* the nodes that currently answer requests
  clock,           \* time source of message ids and timestamps
  pushes,          \* [Node -> [channel -> events sent by the last step]]
  history,         \* history: delivery RPCs that returned Ok, repeated announcements
  timeouts,        \* history: number of RPCs that timed out after being handled
  status_calls,    \* calls of safe_update_message_status made so far
  norm_in,         \* the arguments given to normalize_chat_id
  norm_out,        \* its results, <<f(a, b), f(b, a)>>, or <<>> before the call
  keys_listed      \* what the last call of get_chat_keys returned

wsvars == <<ws_connections, online_nodes, browser_connections, chat_keys,
            active_connections>>
sysvars == <<chats, delivery_queue, queue_lock, wsvars, settings, tasks,
             reachable, clock, pushes, history, timeouts>>
purevars == <<status_calls, norm_in, norm_out, keys_listed>>
vars == <<chats, delivery_queue, queue_lock, wsvars, settings, tasks, reachable,
          clock, pushes, history, timeouts, status_calls, norm_in, norm_out,
          keys_listed>>

----------------------------------------------------------------------------
(* Bounds *)

MaxMsgs == 2      \* messages created in one run
MaxTimeouts == 1  \* RPCs whose reply is lost after the callee handled the request
MaxCalls == 2     \* length of the log of status-machine calls
MaxIdLen == 2     \* length of the identity strings given to normalize_chat_id
MaxInbound == 2   \* messages a peer hands to a node in one run

----------------------------------------------------------------------------
(* Strings: a Rust String is the sequence of its bytes *)

Colon == 58

\* The two nodes, "a" and "b"
A == <<97>>
B == <<98>>
Node == {A, B}
System == <<83, 121, 115, 116, 101, 109>>
Unknown == <<117, 110, 107, 110, 111, 119, 110>>
SystemWelcome ==
  <<115, 121, 115, 116, 101, 109, Colon, 119, 101, 108, 99, 111, 109, 101>>

Min2(x, y) == IF x <= y THEN x ELSE y

\* `<` of str: bytewise lexicographic order, a proper prefix being smaller
StrLess(s, t) ==
  \E i \in 1..(Min2(Len(s), Len(t)) + 1) :
    /\ \A j \in 1..(i - 1) : s[j] = t[j]
    /\ \/ i = Len(s) + 1 /\ i <= Len(t)
       \/ i <= Len(s) /\ i <= Len(t) /\ s[i] < t[i]

normalize_chat_id_unordered(node1, node2) == node1 \o <<Colon>> \o node2

normalize_chat_id(node1, node2) ==
  IF StrLess(node1, node2)
    THEN node1 \o <<Colon>> \o node2
    ELSE node2 \o <<Colon>> \o node1

\* chat_id.split(':').nth(1).unwrap_or("unknown")
ColonsOf(s) == {i \in 1..Len(s) : s[i] = Colon}
FirstIn(S) == CHOOSE i \in S : \A j \in S : i <= j
SplitNth1(s) ==
  IF ColonsOf(s) = {} THEN Unknown
  ELSE LET p == FirstIn(ColonsOf(s))
           later == {i \in ColonsOf(s) : i > p}
           q == IF later = {} THEN Len(s) + 1 ELSE FirstIn(later)
       IN SubSeq(s, p + 1, q - 1)

----------------------------------------------------------------------------
(* Message status machine *)

Status == {"Sending", "Sent", "Delivered", "Failed"}

safe_update_message_status_unchecked(current, new) == new

safe_update_message_status_sticky_sent(current, new) ==
  IF current = "Sending" /\ new \in {"Sent", "Delivered", "Failed"} THEN new
  ELSE current

safe_update_message_status(current, new) ==
  CASE current = "Sending" /\ new \in {"Sent", "Delivered", "Failed"} -> new
    [] current = "Sent" /\ new \in {"Delivered", "Failed"} -> new
    [] current = "Delivered" -> current
    [] current = "Failed" -> current
    [] OTHER -> current

----------------------------------------------------------------------------
(* Data model *)

Put(f, k, v) == [x \in DOMAIN f \cup {k} |-> IF x = k THEN v ELSE f[x]]
Drop(f, k) == [x \in DOMAIN f \ {k} |-> f[x]]

\* ChatMessage: the id "<unix_seconds>:<random_u32>" is the time it was created at
\* (ids are unique per sender); the welcome message "welcome_<ts>" is id 0
ChatMessage(id, sender, status) ==
  [id |-> id, sender |-> sender, status |-> status, reactions |-> <<>>]
Timestamp(m) == m.id
NoMessage == ChatMessage(0 - 1, <<>>, "Sending")

Chat(id, counterparty, last_activity, notify) ==
  [id |-> id, counterparty |-> counterparty, messages |-> <<>>,
   last_activity |-> last_activity, unread_count |-> 0,
   is_blocked |-> FALSE, notify |-> notify]

WelcomeChat ==
  [Chat(SystemWelcome, System, 0, FALSE)
     EXCEPT !.messages = <<ChatMessage(0, System, "Delivered")>>]

\* chat.messages.iter_mut().find(|m| m.id == id), then the status update
HasId(msgs, id) == \E i \in 1..Len(msgs) : msgs[i].id = id
FirstWithId(msgs, id) ==
  CHOOSE i \in 1..Len(msgs) : msgs[i].id = id /\ \A j \in 1..(i - 1) : msgs[j].id # id
SetStatus_assign(msgs, id, new) ==
  IF HasId(msgs, id)
    THEN [msgs EXCEPT ![FirstWithId(msgs, id)].status = new]
    ELSE msgs

SetStatus(msgs, id, new) ==
  IF HasId(msgs, id)
    THEN [msgs EXCEPT ![FirstWithId(msgs, id)].status =
            safe_update_message_status(@, new)]
    ELSE msgs

\* self.chats.entry(chat_id).or_insert_with(|| Chat { counterparty: split.nth(1), .. })
EntryOrInsert(store, chat_id, counterparty, ts) ==
  IF chat_id \in DOMAIN store THEN store
  ELSE Put(store, chat_id, Chat(chat_id, counterparty, ts, TRUE))

Enqueue_in_front(queue, counterparty, msg) ==
  IF counterparty \in DOMAIN queue
    THEN [queue EXCEPT ![counterparty] = <<msg>> \o @]
    ELSE Put(queue, counterparty, <<msg>>)

\* queue.entry(counterparty).or_insert_with(Vec::new).push(msg)
Enqueue(queue, counterparty, msg) ==
  IF counterparty \in DOMAIN queue
    THEN [queue EXCEPT ![counterparty] = Append(@, msg)]
    ELSE Put(queue, counterparty, <<msg>>)

RemoveKeepEmpty(queue, node, id) ==
  IF node \in DOMAIN queue
    THEN [queue EXCEPT ![node] = SelectSeq(@, LAMBDA m : m.id # id)]
    ELSE queue

\* node_queue.retain(|m| m.id != msg.id); if node_queue.is_empty() { queue.remove(&node) }
RemoveOnSuccess(queue, node, id) ==
  IF node \in DOMAIN queue
    THEN LET kept == SelectSeq(queue[node], LAMBDA m : m.id # id)
         IN IF kept = <<>> THEN Drop(queue, node)
            ELSE [queue EXCEPT ![node] = kept]
    ELSE queue

\* send_ws_push to every key of ws_connections: the events of this step, per channel
NoPush == [n \in Node |-> <<>>]
PushAll(n, events) ==
  [NoPush EXCEPT ![n] = [ch \in DOMAIN ws_connections[n] |-> events]]
ChatUpdate(chat_id) == [kind |-> "ChatUpdate", ref |-> chat_id]
NewMessage(id) == [kind |-> "NewMessage", ref |-> id]

----------------------------------------------------------------------------
(* Futures awaiting an RPC.  stage: "req" the request is on its way, "ack"   *)
(* the callee has handled it and awaits its own acknowledgment RPC, "rep"    *)
(* the callee's reply is on its way.                                         *)

Task(kind, node, target, msg, chat, rest, snap) ==
  [kind |-> kind, node |-> node, target |-> target, msg |-> msg, chat |-> chat,
   rest |-> rest, snap |-> snap, stage |-> "req"]

DeliveryKinds == {"send_message", "forward_message", "upload_file", "sweep",
                  "flush", "inbound"}

Answers(identity) == identity \in Node /\ identity \in reachable

\* History events: a delivery RPC of `kind` for message `id` returned Ok to
\* `node`; receive_chat_creation ran at `node`, which already held the chat,
\* with `sessions` WebSocket sessions registered
DeliveredOk(kind, node, id) ==
  [ev |-> "ok", kind |-> kind, node |-> node, id |-> id, sessions |-> 0]
Reannounced(node, sessions) ==
  [ev |-> "again", kind |-> "announce", node |-> node, id |-> 0,
   sessions |-> sessions]

\* spawn(send_push_notification_for_message(..)): receive_message at `node`
\* dispatched a push notification for message `id`
PushNotification(node, id) ==
  [ev |-> "notification", kind |-> "push", node |-> node, id |-> id,
   sessions |-> 0]

----------------------------------------------------------------------------
(* State after construction and initialize *)

\* Settings::default(), the fields that a handler of the model reads
DefaultSettings == [notify_chats |-> TRUE]

SysInit ==
  /\ chats = [n \in Node |-> Put(<<>>, SystemWelcome, WelcomeChat)]
  /\ delivery_queue = [n \in Node |-> <<>>]
  /\ queue_lock = [n \in Node |-> "free"]
  /\ ws_connections = [n \in Node |-> <<>>]
  /\ online_nodes = [n \in Node |-> {}]
  /\ browser_connections = [n \in Node |-> <<>>]
  /\ chat_keys = [n \in Node |-> <<>>]
  /\ active_connections = [n \in Node |-> {}]
  /\ settings = [n \in Node |-> DefaultSettings]
  /\ tasks = {}
  /\ reachable = Node
  /\ clock = 0
  /\ pushes = NoPush
  /\ history = {}
  /\ timeouts = 0

PureIdle ==
  /\ status_calls = <<>>
  /\ norm_in = <<>>
  /\ norm_out = <<>>
  /\ keys_listed = {}

Init == SysInit /\ PureIdle

----------------------------------------------------------------------------
(* Local API (HTTP) handlers *)

\* The chat ids a UI client names in a request: the normalized id of the two
\* nodes and the welcome chat
ChatIdInputs == {normalize_chat_id(A, B), SystemWelcome}

UNCHANGED_ws == UNCHANGED wsvars
\* What only update_settings and the read-only calls that are logged write,
\* and the Mutex of the delivery queue, whose guard every handler drops before
\* the await that ends its step
UNCHANGED_pure ==
  UNCHANGED <<status_calls, norm_in, norm_out, keys_listed, settings, queue_lock>>

\* delivery_queue.lock().unwrap(): returns when no guard is alive
Lock(n) == queue_lock[n] = "free"

create_chat_unnormalized(n, counterparty) ==
  LET chat_id == normalize_chat_id_unordered(n, counterparty)
  IN /\ chats' = [chats EXCEPT ![n] =
          Put(@, chat_id, Chat(chat_id, counterparty, clock, TRUE))]
     /\ tasks' = tasks \cup
          {Task("announce", n, counterparty, NoMessage, chat_id, <<>>, <<>>)}
     /\ pushes' = NoPush
     /\ UNCHANGED <<delivery_queue, reachable, clock, history, timeouts>>
     /\ UNCHANGED_ws /\ UNCHANGED_pure

\* create_chat: inserts a fresh Chat under the normalized id (replacing a record
\* already there) and spawns the announcement to the counterparty
create_chat(n, counterparty) ==
  LET chat_id == normalize_chat_id(n, counterparty)
  IN /\ chats' = [chats EXCEPT ![n] =
          Put(@, chat_id, Chat(chat_id, counterparty, clock, TRUE))]
     /\ tasks' = tasks \cup
          {Task("announce", n, counterparty, NoMessage, chat_id, <<>>, <<>>)}
     /\ pushes' = NoPush
     /\ UNCHANGED <<delivery_queue, reachable, clock, history, timeouts>>
     /\ UNCHANGED_ws /\ UNCHANGED_pure

\* send_message: stores the message, marks it Sent at once, pushes the chat and
\* spawns the delivery attempt
send_message(n, chat_id) ==
  /\ clock < MaxMsgs
  /\ LET ts == clock + 1
         message == ChatMessage(ts, n, "Sending")
         store == EntryOrInsert(chats[n], chat_id, SplitNth1(chat_id), ts)
         chat == store[chat_id]
         pushed == [chat EXCEPT !.messages = Append(@, message),
                                !.last_activity = ts]
         updated == [pushed EXCEPT !.messages = SetStatus(@, message.id, "Sent")]
     IN /\ clock' = ts
        /\ chats' = [chats EXCEPT ![n] = Put(store, chat_id, updated)]
        /\ pushes' = PushAll(n, <<ChatUpdate(chat_id)>>)
        /\ tasks' = tasks \cup
             {Task("send_message", n, chat.counterparty, message, chat_id, <<>>, <<>>)}
        /\ UNCHANGED <<delivery_queue, reachable, history, timeouts>>
        /\ UNCHANGED_ws /\ UNCHANGED_pure

\* forward_message, upload_file, send_voice_note up to their await of the
\* delivery RPC: the message is stored with status Sending.  A forward needs a
\* message to copy (from_chat_id, message_id); a forward into a "browser:" chat
\* sends nothing (no such chat id is among ChatIdInputs).  What follows the
\* await is one of two continuations: forward_message's, or the one that
\* upload_file and send_voice_note have in common
InlineKinds == {"forward_message", "upload_file"}

send_inline(n, kind, chat_id) ==
  /\ clock < MaxMsgs
  /\ kind \in InlineKinds
  /\ kind = "forward_message" =>
       \E from \in DOMAIN chats[n] : chats[n][from].messages # <<>>
  /\ LET ts == clock + 1
         message == ChatMessage(ts, n, "Sending")
         store == EntryOrInsert(chats[n], chat_id, SplitNth1(chat_id), ts)
         chat == store[chat_id]
         pushed == [chat EXCEPT !.messages = Append(@, message),
                                !.last_activity = ts]
     IN /\ clock' = ts
        /\ chats' = [chats EXCEPT ![n] = Put(store, chat_id, pushed)]
        /\ pushes' = NoPush
        /\ tasks' = tasks \cup
             {Task(kind, n, chat.counterparty, message, chat_id, <<>>, <<>>)}
        /\ UNCHANGED <<delivery_queue, reachable, history, timeouts>>
        /\ UNCHANGED_ws /\ UNCHANGED_pure

forward_message(n, to_chat_id) == send_inline(n, "forward_message", to_chat_id)

upload_file(n, chat_id) == send_inline(n, "upload_file", chat_id)

send_voice_note(n, chat_id) == send_inline(n, "upload_file", chat_id)

----------------------------------------------------------------------------
(* Remote (P2P) handlers, run at the callee when the request arrives *)

\* The messages receive_chat_creation takes out of the queue for the announcer
\* and hands to its flush task
TakeQueued(queue, counterparty) ==
  IF counterparty \in DOMAIN queue THEN queue[counterparty] ELSE <<>>

FlushTasks(n, counterparty, queued) ==
  IF queued = <<>> THEN {}
  ELSE {Task("flush", n, counterparty, Head(queued), <<>>, Tail(queued), <<>>)}

receive_chat_creation_overwrite(t) ==
  LET n == t.target
      counterparty == t.node
      chat_id == normalize_chat_id(counterparty, n)
      chat_exists == chat_id \in DOMAIN chats[n]
      queued == TakeQueued(delivery_queue[n], counterparty)
  IN /\ t \in tasks /\ t.kind = "announce" /\ Answers(t.target)
     /\ Lock(n)
     /\ chats' = [chats EXCEPT ![n] =
          Put(@, chat_id, Chat(chat_id, counterparty, clock, TRUE))]
     /\ pushes' = PushAll(n, <<ChatUpdate(chat_id)>>)
     /\ delivery_queue' = [delivery_queue EXCEPT ![n] = Drop(@, counterparty)]
     /\ tasks' = (tasks \ {t}) \cup FlushTasks(n, counterparty, queued)
     /\ history' = IF chat_exists
                     THEN history \cup {Reannounced(n, Cardinality(DOMAIN ws_connections[n]))}
                     ELSE history
     /\ UNCHANGED <<reachable, clock, timeouts>>
     /\ UNCHANGED_ws /\ UNCHANGED_pure

\* receive_chat_creation(counterparty): creates the chat when absent (pushing a
\* ChatUpdate), then removes the announcer's whole queue entry and spawns the
\* flush of those messages
receive_chat_creation(t) ==
  LET n == t.target
      counterparty == t.node
      chat_id == normalize_chat_id(counterparty, n)
      chat_exists == chat_id \in DOMAIN chats[n]
      queued == TakeQueued(delivery_queue[n], counterparty)
  IN /\ t \in tasks /\ t.kind = "announce" /\ Answers(t.target)
     /\ Lock(n)
     /\ chats' = [chats EXCEPT ![n] = EntryOrInsert(@, chat_id, counterparty, clock)]
     /\ pushes' = IF chat_exists THEN NoPush ELSE PushAll(n, <<ChatUpdate(chat_id)>>)
     /\ delivery_queue' = [delivery_queue EXCEPT ![n] = Drop(@, counterparty)]
     /\ tasks' = (tasks \ {t}) \cup FlushTasks(n, counterparty, queued)
     /\ history' = IF chat_exists
                     THEN history \cup {Reannounced(n, Cardinality(DOMAIN ws_connections[n]))}
                     ELSE history
     /\ UNCHANGED <<reachable, clock, timeouts>>
     /\ UNCHANGED_ws /\ UNCHANGED_pure

\* The announcement does not reach its target: create_chat only logs the error
announce_fails(t) ==
  /\ t \in tasks /\ t.kind = "announce" /\ ~Answers(t.target)
  /\ tasks' = tasks \ {t}
  /\ pushes' = NoPush
  /\ UNCHANGED <<chats, delivery_queue, reachable, clock, history, timeouts>>
  /\ UNCHANGED_ws /\ UNCHANGED_pure

InboundEvents_message_first(is_new_chat, chat_id, id) ==
  <<NewMessage(id)>> \o (IF is_new_chat THEN <<ChatUpdate(chat_id)>> ELSE <<>>)

\* What receive_message sends to each session: for a new chat the ChatUpdate
\* first, then the NewMessage
InboundEvents(is_new_chat, chat_id, id) ==
  (IF is_new_chat THEN <<ChatUpdate(chat_id)>> ELSE <<>>) \o <<NewMessage(id)>>

Notifies_whoever_is_watching(n, chat) ==
  chat.notify /\ settings[n].notify_chats

\* chat.notify && self.settings.notify_chats && self.active_connections.is_empty()
Notifies(n, chat) ==
  chat.notify /\ settings[n].notify_chats /\ active_connections[n] = {}

\* receive_message up to its await of the acknowledgment RPC: resolves or
\* creates the chat under the normalized id, stores the message as Delivered,
\* counts it unread, pushes it to the sessions and, when nobody is watching,
\* dispatches the push notification
receive_message(t) ==
  LET n == t.target
      message == t.msg
      chat_id == normalize_chat_id(message.sender, n)
      is_new_chat == chat_id \notin DOMAIN chats[n]
      store == EntryOrInsert(chats[n], chat_id, message.sender, Timestamp(message))
      updated_message ==
        [message EXCEPT !.status = safe_update_message_status(@, "Delivered")]
      chat == [store[chat_id] EXCEPT !.messages = Append(@, updated_message),
                                     !.last_activity = Timestamp(updated_message),
                                     !.unread_count = @ + 1]
  IN /\ t \in tasks /\ t.kind \in DeliveryKinds /\ t.stage = "req"
     /\ Answers(t.target)
     /\ chats' = [chats EXCEPT ![n] = Put(store, chat_id, chat)]
     /\ pushes' = PushAll(n, InboundEvents(is_new_chat, chat_id, message.id))
     /\ history' = IF Notifies(n, chat)
                      THEN history \cup {PushNotification(n, message.id)}
                      ELSE history
     /\ tasks' = (tasks \ {t}) \cup {[t EXCEPT !.stage = "ack"]}
     /\ UNCHANGED <<delivery_queue, reachable, clock, timeouts>>
     /\ UNCHANGED_ws /\ UNCHANGED_pure

\* receive_message_ack(message_id) at node n: the first chat (in map order) that
\* holds a message with this id sent by n gets it marked Delivered and is pushed
OwnWithId_any_sender(chat, n, id) ==
  {i \in 1..Len(chat.messages) : chat.messages[i].id = id}

OwnWithId(chat, n, id) ==
  {i \in 1..Len(chat.messages) :
     chat.messages[i].id = id /\ chat.messages[i].sender = n}

AckedStore(store, n, chat_id, id) ==
  LET i == FirstIn(OwnWithId(store[chat_id], n, id))
  IN [store EXCEPT ![chat_id].messages[i].status =
        safe_update_message_status(@, "Delivered")]

AckHandler_first_with_id(n, id) ==
  IF \E c \in DOMAIN chats[n] : HasId(chats[n][c].messages, id)
    THEN \E c \in DOMAIN chats[n] :
           /\ HasId(chats[n][c].messages, id)
           /\ chats' = [chats EXCEPT ![n][c].messages = SetStatus(@, id, "Delivered")]
           /\ pushes' = PushAll(n, <<ChatUpdate(c)>>)
    ELSE /\ pushes' = NoPush
         /\ UNCHANGED chats

AckHandler(n, id) ==
  IF \E c \in DOMAIN chats[n] : OwnWithId(chats[n][c], n, id) # {}
    THEN \E c \in DOMAIN chats[n] :
           /\ OwnWithId(chats[n][c], n, id) # {}
           /\ chats' = [chats EXCEPT ![n] = AckedStore(@, n, c, id)]
           /\ pushes' = PushAll(n, <<ChatUpdate(c)>>)
    ELSE /\ pushes' = NoPush
         /\ UNCHANGED chats

\* receive_message's acknowledgment RPC to message.sender (its result is
\* discarded), after which receive_message returns Ok
receive_message_ack(t) ==
  LET n == t.msg.sender
      id == t.msg.id
  IN /\ t \in tasks /\ t.kind \in DeliveryKinds /\ t.stage = "ack"
     /\ tasks' = (tasks \ {t}) \cup {[t EXCEPT !.stage = "rep"]}
     /\ IF Answers(n)
          THEN AckHandler(n, id)
          ELSE /\ pushes' = NoPush
               /\ UNCHANGED chats
     /\ UNCHANGED <<delivery_queue, reachable, clock, history, timeouts>>
     /\ UNCHANGED_ws /\ UNCHANGED_pure

----------------------------------------------------------------------------
(* Return of a delivery RPC to the awaiting future.  Ok: the callee's reply    *)
(* arrives.  Err: the target does not answer, or the bounded wait ends before  *)
(* the reply of a request that was handled.                                    *)

ReturnsOk(t) ==
  /\ t \in tasks /\ t.stage = "rep" /\ Answers(t.target)
  /\ history' = history \cup {DeliveredOk(t.kind, t.node, t.msg.id)}
  /\ UNCHANGED timeouts

ReturnsErr(t) ==
  /\ t \in tasks /\ ~Answers(t.target)
  /\ \/ t.stage = "req" /\ UNCHANGED timeouts
     \/ t.stage = "rep" /\ timeouts < MaxTimeouts /\ timeouts' = timeouts + 1
  /\ UNCHANGED history

\* send_message's spawned task: Ok needs nothing more, Err queues the message
send_message_returns(t) ==
  /\ t.kind = "send_message"
  /\ tasks' = tasks \ {t}
  /\ pushes' = NoPush
  /\ \/ ReturnsOk(t) /\ UNCHANGED delivery_queue
     \/ /\ ReturnsErr(t)
        /\ Lock(t.node)
        /\ delivery_queue' = [delivery_queue EXCEPT ![t.node] = Enqueue(@, t.target, t.msg)]
  /\ UNCHANGED <<chats, reachable, clock>>
  /\ UNCHANGED_ws /\ UNCHANGED_pure

\* if let Some(chat) = self.chats.get_mut(&chat_id) { find the message, set status }
MarkIn(store, chat_id, id, new) ==
  IF chat_id \in DOMAIN store
    THEN [store EXCEPT ![chat_id].messages = SetStatus(@, id, new)]
    ELSE store

\* forward_message, upload_file, send_voice_note after their await: Ok marks
\* the stored copy Sent and pushes the chat; on Err all three queue the
\* message, forward_message alone marks its stored copy Failed, the other two
\* push NewMessage
inline_returns(t) ==
  LET n == t.node
  IN /\ t.kind \in InlineKinds
     /\ tasks' = tasks \ {t}
     /\ \/ /\ ReturnsOk(t)
           /\ chats' = [chats EXCEPT ![n] = MarkIn(@, t.chat, t.msg.id, "Sent")]
           /\ pushes' = IF t.chat \in DOMAIN chats[n]
                          THEN PushAll(n, <<ChatUpdate(t.chat)>>) ELSE NoPush
           /\ UNCHANGED delivery_queue
        \/ /\ ReturnsErr(t)
           /\ Lock(n)
           /\ delivery_queue' = [delivery_queue EXCEPT ![n] = Enqueue(@, t.target, t.msg)]
           /\ chats' = IF t.kind = "forward_message"
                         THEN [chats EXCEPT ![n] = MarkIn(@, t.chat, t.msg.id, "Failed")]
                         ELSE chats
           /\ pushes' = IF t.kind = "forward_message" THEN NoPush
                        ELSE PushAll(n, <<NewMessage(t.msg.id)>>)
     /\ UNCHANGED <<reachable, clock>>
     /\ UNCHANGED_ws /\ UNCHANGED_pure

----------------------------------------------------------------------------
(* The announce-triggered flush spawned by receive_chat_creation *)

\* for msg in queued_messages: Ok goes on with the next message; Err puts this
\* message back into the queue and breaks out of the loop
flush_returns(t) ==
  LET n == t.node
  IN /\ t.kind = "flush"
     /\ pushes' = NoPush
     /\ \/ /\ ReturnsOk(t)
           /\ tasks' = (tasks \ {t}) \cup FlushTasks(n, t.target, t.rest)
           /\ UNCHANGED delivery_queue
        \/ /\ ReturnsErr(t)
           /\ Lock(n)
           /\ tasks' = tasks \ {t}
           /\ delivery_queue' = [delivery_queue EXCEPT ![n] = Enqueue(@, t.target, t.msg)]
     /\ UNCHANGED <<chats, reachable, clock>>
     /\ UNCHANGED_ws /\ UNCHANGED_pure

----------------------------------------------------------------------------
(* The background sweep spawned by initialize: every 30 s it clones the queue  *)
(* and, for each entry of the clone (in map order), tries the first message.   *)

SweepTasks_every_message(n, snap) ==
  {Task("sweep", n, node, Head(snap[node]), <<>>, <<>>,
        IF Len(snap[node]) > 1 THEN [snap EXCEPT ![node] = Tail(@)]
        ELSE Drop(snap, node)) :
     node \in {c \in DOMAIN snap : snap[c] # <<>>}}

\* The sweep's next attempt over what is left of its snapshot, if any
SweepTasks(n, snap) ==
  {Task("sweep", n, node, Head(snap[node]), <<>>, <<>>, Drop(snap, node)) :
     node \in {c \in DOMAIN snap : snap[c] # <<>>}}

SweepNext(n, t) ==
  IF SweepTasks(n, t.snap) = {}
    THEN tasks' = tasks \ {t}
    ELSE \E next \in SweepTasks(n, t.snap) : tasks' = (tasks \ {t}) \cup {next}

sweep_start(n) ==
  /\ ~\E t \in tasks : t.kind = "sweep" /\ t.node = n
  /\ Lock(n)
  /\ \E first \in SweepTasks(n, delivery_queue[n]) : tasks' = tasks \cup {first}
  /\ pushes' = NoPush
  /\ UNCHANGED <<chats, delivery_queue, reachable, clock, history, timeouts>>
  /\ UNCHANGED_ws /\ UNCHANGED_pure

sweep_returns_holding_the_guard(t) ==
  LET n == t.node
  IN /\ t.kind = "sweep"
     /\ pushes' = NoPush
     /\ \/ /\ ReturnsOk(t)
           /\ Lock(n)
           /\ delivery_queue' = [delivery_queue EXCEPT ![n] =
                                   RemoveOnSuccess(@, t.target, t.msg.id)]
           /\ queue_lock' = [queue_lock EXCEPT ![n] = "sweep"]
        \/ ReturnsErr(t) /\ UNCHANGED <<delivery_queue, queue_lock>>
     /\ SweepNext(n, t)
     /\ UNCHANGED <<chats, reachable, clock>>
     /\ UNCHANGED_ws
     /\ UNCHANGED <<status_calls, norm_in, norm_out, keys_listed, settings>>

\* Ok removes the delivered message from the live queue (pruning an emptied
\* entry); Err leaves the queue alone; either way the loop goes on
sweep_returns(t) ==
  LET n == t.node
  IN /\ t.kind = "sweep"
     /\ pushes' = NoPush
     /\ \/ /\ ReturnsOk(t)
           /\ Lock(n)
           /\ delivery_queue' = [delivery_queue EXCEPT ![n] =
                                   RemoveOnSuccess(@, t.target, t.msg.id)]
        \/ ReturnsErr(t) /\ UNCHANGED delivery_queue
     /\ SweepNext(n, t)
     /\ UNCHANGED <<chats, reachable, clock>>
     /\ UNCHANGED_ws /\ UNCHANGED_pure

----------------------------------------------------------------------------
(* WebSocket handler: a Text frame that parses as a WsClientMessage *)

Range(f) == {f[x] : x \in DOMAIN f}

\* The elements of a set of chat ids in a fixed order (the order in which a map
\* is iterated is not observed by any property here)
RECURSIVE SeqOf(_)
SeqOf(S) ==
  IF S = {} THEN <<>>
  ELSE LET x == CHOOSE y \in S : \A z \in S : y = z \/ StrLess(y, z)
       IN <<x>> \o SeqOf(S \ {x})

RECURSIVE ChatUpdates(_)
ChatUpdates(ids) ==
  IF ids = <<>> THEN <<>> ELSE <<ChatUpdate(Head(ids))>> \o ChatUpdates(Tail(ids))

MessageAck(id) == [kind |-> "MessageAck", ref |-> id]
HeartbeatReply == [kind |-> "Heartbeat", ref |-> <<>>]

\* "Initialize connection if not already present": a channel that is neither in
\* ws_connections nor a value of browser_connections is registered under the
\* node's own identity and is sent every chat
IsNewChannel(n, ch) ==
  ch \notin DOMAIN ws_connections[n] /\ ch \notin Range(browser_connections[n])

Registered(n, ch) ==
  IF IsNewChannel(n, ch) THEN Put(ws_connections[n], ch, n) ELSE ws_connections[n]

InitialSync(n, ch) ==
  IF IsNewChannel(n, ch) THEN ChatUpdates(SeqOf(DOMAIN chats[n])) ELSE <<>>

PushTo(n, ch, events) ==
  [NoPush EXCEPT ![n] = IF events = <<>> THEN <<>> ELSE Put(<<>>, ch, events)]

\* Routed to handle_client_message: not AuthWithKey and not a guest channel
IsClientMessage(n, ch, type) ==
  type # "AuthWithKey" /\ ch \notin Range(browser_connections[n])

\* handle_client_message, SendMessage { chat_id }: with the chat present the
\* message is stored, queued for the counterparty unless that identity is in
\* online_nodes, and marked Sent; MessageAck is sent in either case
ws_send_message(n, ch, chat_id) ==
  /\ clock < MaxMsgs
  /\ IsClientMessage(n, ch, "SendMessage")
  /\ LET ts == clock + 1
         conns == Registered(n, ch)
         message == ChatMessage(ts, conns[ch], "Sending")
         exists == chat_id \in DOMAIN chats[n]
         counterparty == chats[n][chat_id].counterparty
         online == counterparty \in online_nodes[n]
         pushed == [chats[n][chat_id] EXCEPT !.messages = Append(@, message),
                                            !.last_activity = ts]
         updated == [pushed EXCEPT !.messages = SetStatus(@, message.id, "Sent")]
         peers == {c \in DOMAIN conns : conns[c] = counterparty}
     IN /\ clock' = ts
        /\ ws_connections' = [ws_connections EXCEPT ![n] = conns]
        /\ chats' = IF exists THEN [chats EXCEPT ![n][chat_id] = updated] ELSE chats
        /\ (exists /\ ~online) => Lock(n)
        /\ delivery_queue' =
             IF exists /\ ~online
               THEN [delivery_queue EXCEPT ![n] = Enqueue(@, counterparty, message)]
               ELSE delivery_queue
        /\ \E peer \in IF exists /\ online /\ peers # {} THEN peers ELSE {ch} :
             pushes' = [NoPush EXCEPT ![n] =
               IF exists /\ online /\ peers # {} /\ peer # ch
                 THEN Put(Put(<<>>, peer, <<NewMessage(message.id)>>), ch,
                          InitialSync(n, ch)
                            \o <<ChatUpdate(chat_id), MessageAck(message.id)>>)
                 ELSE Put(<<>>, ch,
                          InitialSync(n, ch)
                            \o (IF exists /\ online /\ peers # {}
                                  THEN <<NewMessage(message.id)>> ELSE <<>>)
                            \o (IF exists THEN <<ChatUpdate(chat_id)>> ELSE <<>>)
                            \o <<MessageAck(message.id)>>)]
        /\ UNCHANGED <<online_nodes, browser_connections, chat_keys,
                       active_connections, tasks, reachable, history, timeouts>>
        /\ UNCHANGED_pure

\* handle_client_message, Ack { message_id }: the first chat (in map order)
\* holding a message with this id gets that message marked Delivered
ws_ack(n, ch, message_id) ==
  /\ IsClientMessage(n, ch, "Ack")
  /\ ws_connections' = [ws_connections EXCEPT ![n] = Registered(n, ch)]
  /\ pushes' = PushTo(n, ch, InitialSync(n, ch))
  /\ IF \E c \in DOMAIN chats[n] : HasId(chats[n][c].messages, message_id)
       THEN \E c \in DOMAIN chats[n] :
              /\ HasId(chats[n][c].messages, message_id)
              /\ chats' = [chats EXCEPT ![n] = MarkIn(@, c, message_id, "Delivered")]
       ELSE UNCHANGED chats
  /\ UNCHANGED <<online_nodes, browser_connections, chat_keys, active_connections,
                 delivery_queue, tasks, reachable, clock, history, timeouts>>
  /\ UNCHANGED_pure

\* handle_client_message, Heartbeat
ws_heartbeat(n, ch) ==
  /\ IsClientMessage(n, ch, "Heartbeat")
  /\ ws_connections' = [ws_connections EXCEPT ![n] = Registered(n, ch)]
  /\ pushes' = PushTo(n, ch, InitialSync(n, ch) \o <<HeartbeatReply>>)
  /\ UNCHANGED <<online_nodes, browser_connections, chat_keys, active_connections,
                 chats, delivery_queue, tasks, reachable, clock, history, timeouts>>
  /\ UNCHANGED_pure

----------------------------------------------------------------------------
(* Environment: a node stops or resumes answering requests *)

goes_offline(n) ==
  /\ n \in reachable
  /\ reachable' = reachable \ {n}
  /\ pushes' = NoPush
  /\ UNCHANGED <<chats, delivery_queue, tasks, clock, history, timeouts>>
  /\ UNCHANGED_ws /\ UNCHANGED_pure

comes_online(n) ==
  /\ n \notin reachable
  /\ reachable' = reachable \cup {n}
  /\ pushes' = NoPush
  /\ UNCHANGED <<chats, delivery_queue, tasks, clock, history, timeouts>>
  /\ UNCHANGED_ws /\ UNCHANGED_pure

----------------------------------------------------------------------------
(* Specifications.  Node A is the one whose users send and node B the one     *)
(* that stops and resumes answering; UI clients use channel 1.  Each           *)
(* specification runs the handlers of one concern in every interleaving.       *)

Channel == {1}
MessageIds == 1..clock

\* Delivery: every origin of a message at A, its delivery to B, the
\* acknowledgments, the queue and the background sweep
Next ==
  \/ send_message(A, normalize_chat_id(A, B))
  \/ forward_message(A, normalize_chat_id(A, B))
  \/ upload_file(A, normalize_chat_id(A, B))
  \/ send_voice_note(A, normalize_chat_id(A, B))
  \/ \E ch \in Channel : ws_send_message(A, ch, normalize_chat_id(A, B))
  \/ \E ch \in Channel : \E id \in MessageIds : ws_ack(A, ch, id)
  \/ \E t \in tasks : receive_message(t)
  \/ \E t \in tasks : receive_message_ack(t)
  \/ \E t \in tasks : send_message_returns(t)
  \/ \E t \in tasks : inline_returns(t)
  \/ sweep_start(A)
  \/ \E t \in tasks : sweep_returns(t)
  \/ goes_offline(B)
  \/ comes_online(B)

Spec == Init /\ [][Next]_vars

\* Sweep: messages queued at A for two counterparties (B, and the welcome
\* chat's "System", which never answers) and the background sweep over them
NextSweep ==
  \/ \E id \in ChatIdInputs : send_message(A, id)
  \/ \E ch \in Channel : ws_send_message(A, ch, normalize_chat_id(A, B))
  \/ \E t \in tasks : receive_message(t)
  \/ \E t \in tasks : receive_message_ack(t)
  \/ \E t \in tasks : send_message_returns(t)
  \/ sweep_start(A)
  \/ \E t \in tasks : sweep_returns(t)
  \/ goes_offline(B)
  \/ comes_online(B)

SpecSweep == Init /\ [][NextSweep]_vars

\* Announcement: chat creation on either node and its announcement, with
\* messages from A and a UI session at B, both nodes answering
NextAnnounce ==
  \/ \E n \in Node : \E c \in Node \ {n} : create_chat(n, c)
  \/ send_message(A, normalize_chat_id(A, B))
  \/ \E t \in tasks : receive_chat_creation(t)
  \/ \E t \in tasks : receive_message(t)
  \/ \E t \in tasks : receive_message_ack(t)
  \/ \E t \in tasks : send_message_returns(t)
  \/ \E ch \in Channel : ws_heartbeat(B, ch)

SpecAnnounce == Init /\ [][NextAnnounce]_vars

\* Flush: messages queued at A while B does not answer, announcements that
\* reach their target or not, and the flush of A's queue that an announcement
\* from B triggers
NextFlush ==
  \/ \E n \in Node : \E c \in Node \ {n} : create_chat(n, c)
  \/ send_message(A, normalize_chat_id(A, B))
  \/ \E t \in tasks : receive_chat_creation(t)
  \/ \E t \in tasks : announce_fails(t)
  \/ \E t \in tasks : receive_message(t)
  \/ \E t \in tasks : receive_message_ack(t)
  \/ \E t \in tasks : send_message_returns(t)
  \/ \E t \in tasks : flush_returns(t)
  \/ goes_offline(B)
  \/ comes_online(B)

SpecFlush == Init /\ [][NextFlush]_vars

----------------------------------------------------------------------------
(* Properties of the delivery specification *)

Terminal == {"Delivered", "Failed"}

Forward == {<<"Sending", "Sent">>, <<"Sending", "Delivered">>,
            <<"Sending", "Failed">>, <<"Sent", "Delivered">>,
            <<"Sent", "Failed">>}

\* The stored messages of a node: <<chat id, position>>
Stored(store) ==
  UNION {{<<c, i>> : i \in 1..Len(store[c].messages)} : c \in DOMAIN store}

\* C1: in every step of send_message, forward_message, upload_file,
\* send_voice_note, receive_message, receive_message_ack, WS SendMessage, WS Ack
\* and the queue sweep, a message that stays stored keeps its status or moves
\* along Sending->Sent, Sending->Delivered, Sending->Failed, Sent->Delivered or
\* Sent->Failed; so a Delivered or Failed message never changes status again
C1_StatusMovesForward ==
  [][\A n \in Node : \A c \in DOMAIN chats[n] \cap DOMAIN chats'[n] :
       LET before == chats[n][c].messages
           after == chats'[n][c].messages
       IN \/ after = before
          \/ \A i \in 1..Min2(Len(before), Len(after)) :
               after[i].id = before[i].id =>
                 \/ after[i].status = before[i].status
                 \/ <<before[i].status, after[i].status>> \in Forward
  ]_vars

\* A's store holds a message that failed (a forward that did not reach B) and
\* one whose delivery returned Ok and that is Delivered, and a UI session is open
C1_Witness ==
  \E c \in DOMAIN chats[A] :
    /\ \E i \in 1..Len(chats[A][c].messages) :
         chats[A][c].messages[i].status = "Failed"
    /\ \E i \in 1..Len(chats[A][c].messages) :
         /\ chats[A][c].messages[i].status = "Delivered"
         /\ \E e \in history : e.ev = "ok" /\ e.id = chats[A][c].messages[i].id
    /\ ws_connections[A] # <<>>

\* The statuses of the copies of message id in a store
StatusesOf(store, id) ==
  {store[p[1]].messages[p[2]].status :
     p \in {q \in Stored(store) : store[q[1]].messages[q[2]].id = id}}

\* C6: whenever the delivery RPC of send_message, forward_message, upload_file
\* or send_voice_note returns an error, the message is appended to the queue
\* entry of the chat's counterparty and the sender's stored copy of it is Failed
C6_FailureQueuesAndMarksFailed ==
  [][\A t \in tasks :
       ((send_message_returns(t) \/ inline_returns(t)) /\ ReturnsErr(t)) =>
         /\ t.target \in DOMAIN delivery_queue'[t.node]
         /\ delivery_queue'[t.node][t.target] =
              Append(TakeQueued(delivery_queue[t.node], t.target), t.msg)
         /\ StatusesOf(chats'[t.node], t.msg.id) = {"Failed"}
  ]_vars

\* C8: when the sweep's delivery of the head message m of counterparty c
\* returns Ok, c's entry loses exactly m (it becomes the rest of the entry, and
\* is removed from the map when m was its only message) and every other
\* counterparty's entry is unchanged
C8_SweepRemovesExactlyTheMessage ==
  [][\A t \in tasks :
       LET q == delivery_queue[t.node]
           q2 == delivery_queue'[t.node]
           c == t.target
       IN (/\ t.kind = "sweep" /\ sweep_returns(t) /\ ReturnsOk(t)
           /\ c \in DOMAIN q /\ Head(q[c]).id = t.msg.id) =>
            /\ DOMAIN q2 \ {c} = DOMAIN q \ {c}
            /\ \A d \in DOMAIN q \ {c} : q2[d] = q[d]
            /\ IF Len(q[c]) = 1 THEN c \notin DOMAIN q2
               ELSE c \in DOMAIN q2 /\ q2[c] = Tail(q[c])
  ]_vars

\* The sweep has delivered the only message queued for B: B's entry is gone
\* and the entry of the other counterparty is still there
C8_Witness ==
  /\ \E e \in history : e.ev = "ok" /\ e.kind = "sweep" /\ e.node = A
  /\ B \notin DOMAIN delivery_queue[A]
  /\ System \in DOMAIN delivery_queue[A]

----------------------------------------------------------------------------
(* Properties of the announcement specification *)

\* min(A, B) + ":" + max(A, B), written out
PairKey == <<97, Colon, 98>>

\* The chat records a node holds for a counterparty
RecordsFor(store, counterparty) ==
  {c \in DOMAIN store : store[c].counterparty = counterparty}

\* C5: however create_chat, receive_chat_creation and receive_message
\* interleave on the two nodes, every chat record a node holds besides the
\* welcome chat is stored under min(A,B):max(A,B) and carries that id, and the
\* node holds at most one record for the other node
C5_OneRecordUnderTheNormalizedKey ==
  \A n \in Node :
    /\ \A c \in DOMAIN chats[n] \ {SystemWelcome} :
         c = PairKey /\ chats[n][c].id = PairKey
    /\ \A other \in Node \ {n} : Cardinality(RecordsFor(chats[n], other)) <= 1

\* A holds its record for B and B holds its record for A: B got a message from
\* A, and an announcement from A for the chat that B already held
C5_Witness ==
  /\ RecordsFor(chats[A], B) = {PairKey}
  /\ RecordsFor(chats[B], A) = {PairKey}
  /\ \E i \in 1..Len(chats[B][PairKey].messages) :
       chats[B][PairKey].messages[i].sender = A
  /\ \E e \in history : e.ev = "again" /\ e.node = B

\* The ids of the messages in a node's queue entry for a counterparty
QueuedIds(queue, counterparty) ==
  {queue[counterparty][i].id : i \in 1..Len(TakeQueued(queue, counterparty))}

\* C7: a message leaves the delivery queue only in a step in which, or after
\* which, a delivery of that message has returned Ok; so the messages queued
\* behind one on which the announce-triggered flush fails stay queued
C7_RemovedOnlyAfterSuccess ==
  [][\A n \in Node : \A c \in DOMAIN delivery_queue[n] :
       \A id \in QueuedIds(delivery_queue[n], c) \ QueuedIds(delivery_queue'[n], c) :
         \E e \in history' : e.ev = "ok" /\ e.node = n /\ e.id = id
  ]_vars

\* C9: a message that A holds queued for B (its delivery to B failed) is
\* Failed in A's Chat Store
C9_QueuedForPeerIsFailed ==
  \A id \in QueuedIds(delivery_queue[A], B) :
    StatusesOf(chats[A], id) \subseteq {"Failed"}

\* C10: receive_chat_creation from c leaves exactly one chat record for c,
\* stored under the normalized id; when the record was already there the
\* whole Chat Store is left as it was and nothing is pushed to the sessions
C10_ReannouncementIsANoOp ==
  [][\A t \in tasks :
       LET n == t.target
       IN receive_chat_creation(t) =>
            /\ RecordsFor(chats'[n], t.node) = {PairKey}
            /\ PairKey \in DOMAIN chats[n] =>
                 chats'[n] = chats[n] /\ pushes'[n] = <<>>
  ]_vars

\* B, with a UI session open, has handled an announcement from A for the
\* chat it already held, and that chat holds a message
C10_Witness ==
  /\ \E e \in history : e.ev = "again" /\ e.node = B /\ e.sessions > 0
  /\ PairKey \in DOMAIN chats[B]
  /\ chats[B][PairKey].messages # <<>>
  /\ chats[B][PairKey].unread_count > 0

----------------------------------------------------------------------------
(* Deletion: delete_chat, delete_message and its propagation *)

\* A request that carries only a message id
Carrying(id) == [NoMessage EXCEPT !.id = id]

RemoveThrough(msgs, id) ==
  SubSeq(msgs, FirstWithId(msgs, id) + 1, Len(msgs))

\* chat.messages.remove(position of the first message with this id)
RemoveFirst(msgs, id) ==
  LET pos == FirstWithId(msgs, id)
  IN SubSeq(msgs, 1, pos - 1) \o SubSeq(msgs, pos + 1, Len(msgs))

\* delete_chat: removes the record ("Chat not found" when there is none)
delete_chat(n, chat_id) ==
  /\ chat_id \in DOMAIN chats[n]
  /\ chats' = [chats EXCEPT ![n] = Drop(@, chat_id)]
  /\ pushes' = NoPush
  /\ UNCHANGED <<delivery_queue, tasks, reachable, clock, history, timeouts>>
  /\ UNCHANGED_ws /\ UNCHANGED_pure

\* Option<bool>: None is <<>>, Some(b) is <<b>>
OptionBool == {<<>>, <<TRUE>>, <<FALSE>>}
unwrap_or(option, default) == IF option = <<>> THEN default ELSE option[1]

delete_message_always_propagating(n, chat_id, message_id, delete_for_both) ==
  /\ chat_id \in DOMAIN chats[n]
  /\ HasId(chats[n][chat_id].messages, message_id)
  /\ chats' = [chats EXCEPT ![n][chat_id].messages = RemoveFirst(@, message_id)]
  /\ pushes' = PushAll(n, <<ChatUpdate(chat_id)>>)
  /\ tasks' = tasks \cup {Task("deletion", n, chats[n][chat_id].counterparty,
                                Carrying(message_id), chat_id, <<>>, <<>>)}
  /\ UNCHANGED <<delivery_queue, reachable, clock, history, timeouts>>
  /\ UNCHANGED_ws /\ UNCHANGED_pure

\* delete_message: removes the message from the chat, pushes the chat and, with
\* delete_for_both Some(true), spawns the deletion request to the counterparty
\* ("Message not found" when the chat or the message is missing)
delete_message(n, chat_id, message_id, delete_for_both) ==
  /\ chat_id \in DOMAIN chats[n]
  /\ HasId(chats[n][chat_id].messages, message_id)
  /\ chats' = [chats EXCEPT ![n][chat_id].messages = RemoveFirst(@, message_id)]
  /\ pushes' = PushAll(n, <<ChatUpdate(chat_id)>>)
  /\ tasks' = IF unwrap_or(delete_for_both, FALSE)
                THEN tasks \cup {Task("deletion", n, chats[n][chat_id].counterparty,
                                      Carrying(message_id), chat_id, <<>>, <<>>)}
                ELSE tasks
  /\ UNCHANGED <<delivery_queue, reachable, clock, history, timeouts>>
  /\ UNCHANGED_ws /\ UNCHANGED_pure

\* receive_message_deletion(message_id, chat_id) at the counterparty; the
\* requester discards the result
receive_message_deletion(t) ==
  LET n == t.target
      found == /\ t.chat \in DOMAIN chats[n]
               /\ HasId(chats[n][t.chat].messages, t.msg.id)
  IN /\ t \in tasks /\ t.kind = "deletion" /\ Answers(t.target)
     /\ tasks' = tasks \ {t}
     /\ chats' = IF found
                   THEN [chats EXCEPT ![n][t.chat].messages = RemoveFirst(@, t.msg.id)]
                   ELSE chats
     /\ pushes' = IF found THEN PushAll(n, <<ChatUpdate(t.chat)>>) ELSE NoPush
     /\ UNCHANGED <<delivery_queue, reachable, clock, history, timeouts>>
     /\ UNCHANGED_ws /\ UNCHANGED_pure

\* Store: chats created by either node (as send-bulk does before each of its
\* sends), messages from A, and deletions at either node
NextStore ==
  \/ \E n \in Node : \E c \in Node \ {n} : create_chat(n, c)
  \/ send_message(A, normalize_chat_id(A, B))
  \/ \E t \in tasks : receive_chat_creation(t)
  \/ \E t \in tasks : receive_message(t)
  \/ \E t \in tasks : receive_message_ack(t)
  \/ \E t \in tasks : send_message_returns(t)
  \/ \E n \in Node : delete_chat(n, normalize_chat_id(A, B))
  \/ \E n \in Node : \E id \in MessageIds : \E both \in OptionBool :
       delete_message(n, normalize_chat_id(A, B), id, both)
  \/ \E t \in tasks : receive_message_deletion(t)

SpecStore == Init /\ [][NextStore]_vars

\* A step of delete_chat, delete_message or receive_message_deletion
Deletes ==
  \/ \E n \in Node : \E c \in DOMAIN chats[n] : delete_chat(n, c)
  \/ \E n \in Node : \E c \in DOMAIN chats[n] : \E id \in MessageIds :
       \E both \in OptionBool : delete_message(n, c, id, both)
  \/ \E t \in tasks : receive_message_deletion(t)

\* The ids of a list of messages, in order
RECURSIVE IdsOf(_)
IdsOf(msgs) == IF msgs = <<>> THEN <<>> ELSE <<Head(msgs).id>> \o IdsOf(Tail(msgs))

\* C11: in every step that is not one of delete_chat, delete_message or
\* receive_message_deletion (create_chat for a counterparty whose chat exists
\* included), a chat record that exists stays, with the messages it held
\* still at the front of its history and with an unread count that is not less
C11_HistoryRemovedOnlyByDeletion ==
  [][~Deletes =>
       \A n \in Node : \A c \in DOMAIN chats[n] :
         /\ c \in DOMAIN chats'[n]
         /\ Len(chats'[n][c].messages) >= Len(chats[n][c].messages)
         /\ IdsOf(SubSeq(chats'[n][c].messages, 1, Len(chats[n][c].messages)))
              = IdsOf(chats[n][c].messages)
         /\ chats'[n][c].unread_count >= chats[n][c].unread_count
  ]_vars

----------------------------------------------------------------------------
(* Reactions: add_reaction, remove_reaction and receive_reaction *)

Emoji == {"+1", "heart"}

MessageReaction(emoji, user, timestamp) ==
  [emoji |-> emoji, user |-> user, timestamp |-> timestamp]

\* message.reactions.iter().any(|r| r.user == user && r.emoji == emoji)
HasReacted(message, user, emoji) ==
  \E i \in 1..Len(message.reactions) :
    message.reactions[i].user = user /\ message.reactions[i].emoji = emoji

\* The reaction request: a message id, an emoji and the reacting user
ReactionRequest(message_id, emoji, user) ==
  [Carrying(message_id) EXCEPT !.reactions = <<MessageReaction(emoji, user, 0)>>]

\* History event: add_reaction at `node` answered "Already reacted" for message id
AlreadyReacted(node, id) ==
  [ev |-> "already", kind |-> "add_reaction", node |-> node, id |-> id,
   sessions |-> 0]

\* add_reaction: the first message with this id in the chat gets the reaction
\* of the local user unless it has it; the reaction is sent to the message's
\* sender, or to the chat's counterparty when the message is the node's own
add_reaction(n, chat_id, message_id, emoji) ==
  /\ chat_id \in DOMAIN chats[n]
  /\ HasId(chats[n][chat_id].messages, message_id)
  /\ LET chat == chats[n][chat_id]
         i == FirstWithId(chat.messages, message_id)
         message == chat.messages[i]
         reaction == MessageReaction(emoji, n, clock)
         target_node == IF message.sender # n THEN message.sender
                        ELSE chat.counterparty
     IN IF ~HasReacted(message, n, emoji)
          THEN /\ chats' = [chats EXCEPT ![n][chat_id].messages[i].reactions =
                              Append(@, reaction)]
               /\ tasks' = tasks \cup
                    {Task("reaction", n, target_node,
                          ReactionRequest(message_id, emoji, n), chat_id, <<>>, <<>>)}
               /\ pushes' = PushAll(n, <<ChatUpdate(chat_id)>>)
               /\ UNCHANGED history
          ELSE /\ history' = history \cup {AlreadyReacted(n, message_id)}
               /\ pushes' = NoPush
               /\ UNCHANGED <<chats, tasks>>
  /\ UNCHANGED <<delivery_queue, reachable, clock, timeouts>>
  /\ UNCHANGED_ws /\ UNCHANGED_pure

\* remove_reaction: removes the local user's reaction with this emoji from the
\* first message with this id ("Reaction not found" when there is none); the
\* counterparty is not told
remove_reaction(n, chat_id, message_id, emoji) ==
  /\ chat_id \in DOMAIN chats[n]
  /\ HasId(chats[n][chat_id].messages, message_id)
  /\ LET i == FirstWithId(chats[n][chat_id].messages, message_id)
         reactions == chats[n][chat_id].messages[i].reactions
         at == {j \in 1..Len(reactions) :
                  reactions[j].user = n /\ reactions[j].emoji = emoji}
     IN /\ at # {}
        /\ chats' = [chats EXCEPT ![n][chat_id].messages[i].reactions =
                       SubSeq(@, 1, FirstIn(at) - 1)
                         \o SubSeq(@, FirstIn(at) + 1, Len(@))]
  /\ pushes' = PushAll(n, <<ChatUpdate(chat_id)>>)
  /\ UNCHANGED <<delivery_queue, tasks, reachable, clock, history, timeouts>>
  /\ UNCHANGED_ws /\ UNCHANGED_pure

\* The chats in which receive_reaction would add the reaction: those whose
\* first message with this id does not have it yet
ReactionTargets(store, message_id, user, emoji) ==
  {c \in DOMAIN store :
     /\ HasId(store[c].messages, message_id)
     /\ ~HasReacted(store[c].messages[FirstWithId(store[c].messages, message_id)],
                    user, emoji)}

receive_reaction_unchecked(t) ==
  LET n == t.target
      message_id == t.msg.id
      emoji == t.msg.reactions[1].emoji
      user == t.msg.reactions[1].user
      found == {c \in DOMAIN chats[n] : HasId(chats[n][c].messages, message_id)}
  IN /\ t \in tasks /\ t.kind = "reaction" /\ Answers(t.target)
     /\ tasks' = tasks \ {t}
     /\ IF found # {}
          THEN \E c \in found :
                 /\ chats' = [chats EXCEPT
                      ![n][c].messages[FirstWithId(chats[n][c].messages, message_id)]
                        .reactions = Append(@, MessageReaction(emoji, user, clock))]
                 /\ pushes' = PushAll(n, <<ChatUpdate(c)>>)
          ELSE pushes' = NoPush /\ UNCHANGED chats
     /\ UNCHANGED <<delivery_queue, reachable, clock, history, timeouts>>
     /\ UNCHANGED_ws /\ UNCHANGED_pure

\* receive_reaction(message_id, emoji, user): the first chat (in map order)
\* whose message with this id lacks the reaction gets it and is pushed; a
\* message that is not held, or that has the reaction, changes nothing
receive_reaction(t) ==
  LET n == t.target
      message_id == t.msg.id
      emoji == t.msg.reactions[1].emoji
      user == t.msg.reactions[1].user
      targets == ReactionTargets(chats[n], message_id, user, emoji)
  IN /\ t \in tasks /\ t.kind = "reaction" /\ Answers(t.target)
     /\ tasks' = tasks \ {t}
     /\ IF targets # {}
          THEN \E c \in targets :
                 /\ chats' = [chats EXCEPT
                      ![n][c].messages[FirstWithId(chats[n][c].messages, message_id)]
                        .reactions = Append(@, MessageReaction(emoji, user, clock))]
                 /\ pushes' = PushAll(n, <<ChatUpdate(c)>>)
          ELSE pushes' = NoPush /\ UNCHANGED chats
     /\ UNCHANGED <<delivery_queue, reachable, clock, history, timeouts>>
     /\ UNCHANGED_ws /\ UNCHANGED_pure

\* The state after A's first message has been sent to B, stored there,
\* acknowledged, and its delivery has returned Ok
DeliveredChat(n) ==
  [Chat(normalize_chat_id(A, B), CHOOSE c \in Node : c # n, 1, TRUE)
     EXCEPT !.messages = <<ChatMessage(1, A, "Delivered")>>,
            !.unread_count = IF n = B THEN 1 ELSE 0]

InitReact ==
  /\ chats = [n \in Node |->
       Put(Put(<<>>, SystemWelcome, WelcomeChat),
           normalize_chat_id(A, B), DeliveredChat(n))]
  /\ delivery_queue = [n \in Node |-> <<>>]
  /\ queue_lock = [n \in Node |-> "free"]
  /\ ws_connections = [n \in Node |-> <<>>]
  /\ online_nodes = [n \in Node |-> {}]
  /\ browser_connections = [n \in Node |-> <<>>]
  /\ chat_keys = [n \in Node |-> <<>>]
  /\ active_connections = [n \in Node |-> {}]
  /\ settings = [n \in Node |-> DefaultSettings]
  /\ tasks = {}
  /\ reachable = Node
  /\ clock = 1
  /\ pushes = NoPush
  /\ history = {DeliveredOk("send_message", A, 1)}
  /\ timeouts = 0
  /\ PureIdle

\* Reactions: both users reacting to the delivered message
NextReact ==
  \/ \E n \in Node : \E id \in MessageIds : \E e \in Emoji :
       add_reaction(n, normalize_chat_id(A, B), id, e)
  \/ \E n \in Node : \E id \in MessageIds : \E e \in Emoji :
       remove_reaction(n, normalize_chat_id(A, B), id, e)
  \/ \E t \in tasks : receive_reaction(t)

SpecReact == InitReact /\ [][NextReact]_vars

\* C12: every stored message has at most one reaction per (user, emoji)
C12_OneReactionPerUserAndEmoji ==
  \A n \in Node : \A c \in DOMAIN chats[n] :
    \A i \in 1..Len(chats[n][c].messages) :
      LET reactions == chats[n][c].messages[i].reactions
      IN \A j, k \in 1..Len(reactions) :
           (reactions[j].user = reactions[k].user
              /\ reactions[j].emoji = reactions[k].emoji) => j = k

\* A has been asked twice for the same reaction to a message, and its copy of
\* that message carries that reaction of A and the same reaction of B,
\* received from B
C12_Witness ==
  \E c \in DOMAIN chats[A] : \E i \in 1..Len(chats[A][c].messages) :
    LET message == chats[A][c].messages[i]
    IN /\ AlreadyReacted(A, message.id) \in history
       /\ Len(message.reactions) = 2
       /\ HasReacted(message, A, "heart")
       /\ HasReacted(message, B, "heart")

----------------------------------------------------------------------------
(* Requests from a peer: a message whose id and status are of the peer's      *)
(* making, and an acknowledgment for any id                                    *)

UiChannels == {1, 2}

\* History event: receive_message_ack(id) at `node` returned `result`
AckReturned(node, id, result) ==
  [ev |-> "returned", kind |-> result, node |-> node, id |-> id, sessions |-> 0]

\* The messages of `sender` that node n holds or is about to be handed
InboundCount(n, sender) ==
  Cardinality({t \in tasks : t.kind = "inbound" /\ t.target = n})
    + Cardinality({p \in Stored(chats[n]) :
                     chats[n][p[1]].messages[p[2]].sender = sender})

\* A peer calls receive_message at n with a ChatMessage it serialised: its
\* next message, carrying whatever status the peer wrote
inbound_message(n, sender, status) ==
  /\ InboundCount(n, sender) < MaxInbound
  /\ tasks' = tasks \cup
       {Task("inbound", sender, n,
             ChatMessage(InboundCount(n, sender) + 1, sender, status),
             normalize_chat_id(sender, n), <<>>, <<>>)}
  /\ pushes' = NoPush
  /\ UNCHANGED <<chats, delivery_queue, reachable, clock, history, timeouts>>
  /\ UNCHANGED_ws /\ UNCHANGED_pure

\* receive_message's Ok reaches the peer
inbound_returns(t) ==
  /\ t \in tasks /\ t.kind = "inbound" /\ t.stage = "rep"
  /\ tasks' = tasks \ {t}
  /\ pushes' = NoPush
  /\ UNCHANGED <<chats, delivery_queue, reachable, clock, history, timeouts>>
  /\ UNCHANGED_ws /\ UNCHANGED_pure

\* A peer calls receive_message_ack(message_id) at n; both ways out of the
\* handler return Ok(())
message_ack(n, message_id) ==
  /\ AckHandler(n, message_id)
  /\ history' = history \cup {AckReturned(n, message_id, "Ok")}
  /\ UNCHANGED <<delivery_queue, tasks, reachable, clock, timeouts>>
  /\ UNCHANGED_ws /\ UNCHANGED_pure

\* Inbound: A, with up to two UI sessions, is handed messages by B
NextInbound ==
  \/ \E status \in Status : inbound_message(A, B, status)
  \/ \E t \in tasks : receive_message(t)
  \/ \E t \in tasks : receive_message_ack(t)
  \/ \E t \in tasks : inbound_returns(t)
  \/ \E ch \in UiChannels : ws_heartbeat(A, ch)

SpecInbound == Init /\ [][NextInbound]_vars

\* C15: every message that receive_message has appended to a chat (a message
\* of the peer in the receiver's store) is stored as Delivered, whatever status
\* it carried on the wire: none is Failed, Sending or Sent
C15_InboundIsStoredDelivered ==
  \A c \in DOMAIN chats[A] : \A i \in 1..Len(chats[A][c].messages) :
    chats[A][c].messages[i].sender = B =>
      chats[A][c].messages[i].status = "Delivered"

\* C19: when receive_message handles a message for a chat the node does not
\* hold, every registered session is sent a ChatUpdate for the new chat and,
\* after it, the NewMessage for that message
C19_ChatUpdateBeforeNewMessage ==
  [][\A t \in tasks :
       LET n == t.target
           chat_id == normalize_chat_id(t.msg.sender, n)
       IN (receive_message(t) /\ chat_id \notin DOMAIN chats[n]) =>
            \A ch \in DOMAIN ws_connections[n] :
              /\ ch \in DOMAIN pushes'[n]
              /\ \E i, j \in 1..Len(pushes'[n][ch]) :
                   /\ i < j
                   /\ pushes'[n][ch][i] = ChatUpdate(chat_id)
                   /\ pushes'[n][ch][j] = NewMessage(t.msg.id)
  ]_vars

\* A, with two sessions registered, has just stored the first message of a
\* chat it did not hold, and has sent events to both sessions
C19_Witness ==
  /\ DOMAIN ws_connections[A] = UiChannels
  /\ DOMAIN pushes[A] = UiChannels
  /\ \A ch \in UiChannels : Len(pushes[A][ch]) = 2
  /\ normalize_chat_id(A, B) \in DOMAIN chats[A]
  /\ Len(chats[A][normalize_chat_id(A, B)].messages) = 1
  /\ \E t \in tasks : t.kind = "inbound" /\ t.stage = "ack"

----------------------------------------------------------------------------
(* Guest sessions: chat keys, AuthWithKey, BrowserMessage, and a Text frame    *)
(* that does not parse                                                          *)

\* The key create_chat_link has drawn, and one that was never issued
IssuedKeys == {"k1"}
AuthKeys == {"k1", "k0"}

\* "Guest-7": the user_name create_chat_link gives the key
GuestName == <<71, 117, 101, 115, 116, 45, 55>>

ChatKey(key, chat_id) ==
  [key |-> key, user_name |-> GuestName, is_revoked |-> FALSE, chat_id |-> chat_id]

AuthSuccess(chat_id) == [kind |-> "AuthSuccess", ref |-> chat_id]
AuthFailed(reason) == [kind |-> "AuthFailed", ref |-> reason]
ErrorReply == [kind |-> "Error", ref |-> "Invalid message format"]

\* History event: the first frame of channel `ch` at `node` was AuthWithKey
\* with this key
GuestConnected(node, ch, chat_key) ==
  [ev |-> "guest", kind |-> chat_key, node |-> node, id |-> ch, sessions |-> 0]

\* create_chat_link: a fresh random key bound to req.chat_id
create_chat_link(n, chat_id, key) ==
  /\ key \notin DOMAIN chat_keys[n]
  /\ chat_keys' = [chat_keys EXCEPT ![n] = Put(@, key, ChatKey(key, chat_id))]
  /\ pushes' = NoPush
  /\ UNCHANGED <<chats, delivery_queue, ws_connections, online_nodes,
                 browser_connections, active_connections, tasks, reachable, clock,
                 history, timeouts>>
  /\ UNCHANGED_pure

\* revoke_chat_key ("Chat key not found" when the key is unknown)
revoke_chat_key(n, key) ==
  /\ key \in DOMAIN chat_keys[n]
  /\ chat_keys' = [chat_keys EXCEPT ![n][key].is_revoked = TRUE]
  /\ pushes' = NoPush
  /\ UNCHANGED <<chats, delivery_queue, ws_connections, online_nodes,
                 browser_connections, active_connections, tasks, reachable, clock,
                 history, timeouts>>
  /\ UNCHANGED_pure

AuthOutcome_ignoring_revocation(keys, chat_key) ==
  IF chat_key \in DOMAIN keys THEN "ok" ELSE "invalid"

\* handle_browser_message, AuthWithKey: the key is looked up, then is_revoked
AuthOutcome(keys, chat_key) ==
  IF chat_key \in DOMAIN keys
    THEN IF ~keys[chat_key].is_revoked THEN "ok" ELSE "revoked"
    ELSE "invalid"

AuthReply(keys, chat_key) ==
  CASE AuthOutcome(keys, chat_key) = "ok" -> AuthSuccess(keys[chat_key].chat_id)
    [] AuthOutcome(keys, chat_key) = "revoked" -> AuthFailed("Chat key has been revoked")
    [] OTHER -> AuthFailed("Invalid chat key")

\* websocket, a Text frame that parses as AuthWithKey { chat_key }: a channel
\* that is in neither map is first registered in ws_connections and sent every
\* chat; then handle_browser_message binds the key to the channel when the key
\* is known and not revoked, and replies AuthSuccess or AuthFailed
ws_auth_with_key(n, ch, chat_key) ==
  /\ ws_connections' = [ws_connections EXCEPT ![n] = Registered(n, ch)]
  /\ browser_connections' =
       IF AuthOutcome(chat_keys[n], chat_key) = "ok"
         THEN [browser_connections EXCEPT ![n] = Put(@, chat_key, ch)]
         ELSE browser_connections
  /\ pushes' = PushTo(n, ch, InitialSync(n, ch) \o <<AuthReply(chat_keys[n], chat_key)>>)
  /\ history' = IF IsNewChannel(n, ch)
                  THEN history \cup {GuestConnected(n, ch, chat_key)}
                  ELSE history
  /\ UNCHANGED <<online_nodes, chat_keys, active_connections, chats,
                 delivery_queue, tasks, reachable, clock, timeouts>>
  /\ UNCHANGED_pure

\* browser_connections.iter().find(|(_, &ch)| ch == channel_id)
KeysOf(n, ch) ==
  {k \in DOMAIN browser_connections[n] : browser_connections[n][k] = ch}

\* websocket, a Text frame that parses as BrowserMessage: from a channel bound
\* to a key, the message is stored as Sent under the key's user_name in the
\* key's chat (created when absent) and sent back to the channel; from any
\* other channel handle_client_message ignores it
ws_browser_message(n, ch) ==
  /\ \/ /\ ch \in Range(browser_connections[n])
        /\ clock < MaxMsgs
        /\ \E k \in KeysOf(n, ch) :
             /\ k \in DOMAIN chat_keys[n]
             /\ LET key_data == chat_keys[n][k]
                    ts == clock + 1
                    message == ChatMessage(ts, key_data.user_name, "Sent")
                    store == EntryOrInsert(chats[n], key_data.chat_id,
                                           key_data.user_name, ts)
                    chat == [store[key_data.chat_id] EXCEPT
                               !.messages = Append(@, message),
                               !.last_activity = ts,
                               !.unread_count = @ + 1]
                IN /\ clock' = ts
                   /\ chats' = [chats EXCEPT ![n] = Put(store, key_data.chat_id, chat)]
                   /\ pushes' = PushTo(n, ch, <<NewMessage(message.id)>>)
        /\ UNCHANGED ws_connections
     \/ /\ ch \notin Range(browser_connections[n])
        /\ ws_connections' = [ws_connections EXCEPT ![n] = Registered(n, ch)]
        /\ pushes' = PushTo(n, ch, InitialSync(n, ch))
        /\ UNCHANGED <<chats, clock>>
  /\ UNCHANGED <<online_nodes, browser_connections, chat_keys, active_connections,
                 delivery_queue, tasks, reachable, history, timeouts>>
  /\ UNCHANGED_pure

ws_invalid_frame_registering(n, ch) ==
  /\ ws_connections' = [ws_connections EXCEPT ![n] = Registered(n, ch)]
  /\ pushes' = PushTo(n, ch, InitialSync(n, ch) \o <<ErrorReply>>)
  /\ UNCHANGED <<online_nodes, browser_connections, chat_keys, active_connections,
                 chats, delivery_queue, tasks, reachable, clock, history, timeouts>>
  /\ UNCHANGED_pure

\* websocket, a Text frame whose payload (UTF-8, as the payload of a Text
\* frame is) does not parse as a WsClientMessage: an Error goes to the channel
ws_invalid_frame(n, ch) ==
  /\ pushes' = PushTo(n, ch, <<ErrorReply>>)
  /\ UNCHANGED <<ws_connections, online_nodes, browser_connections, chat_keys,
                 active_connections, chats, delivery_queue, tasks, reachable,
                 clock, history, timeouts>>
  /\ UNCHANGED_pure

StatusUpdate(node, status) == [kind |-> "StatusUpdate", ref |-> <<node, status>>]

\* handle_client_message, UpdateStatus { status }: the channel is counted
\* active or not, and broadcast_to_all sends the StatusUpdate to every key of
\* ws_connections
ws_update_status(n, ch, status) ==
  /\ IsClientMessage(n, ch, "UpdateStatus")
  /\ ws_connections' = [ws_connections EXCEPT ![n] = Registered(n, ch)]
  /\ active_connections' = [active_connections EXCEPT ![n] =
       CASE status = "active" -> @ \cup {ch}
         [] status = "inactive" -> @ \ {ch}
         [] OTHER -> @]
  /\ pushes' = [NoPush EXCEPT ![n] =
       [c \in DOMAIN Registered(n, ch) |->
          (IF c = ch THEN InitialSync(n, ch) ELSE <<>>)
            \o <<StatusUpdate(Registered(n, ch)[ch], status)>>]]
  /\ UNCHANGED <<online_nodes, browser_connections, chat_keys, chats,
                 delivery_queue, tasks, reachable, clock, history, timeouts>>
  /\ UNCHANGED_pure

\* Sessions: two channels at A that connect as UI sessions or as guests with
\* the key of chat a:b, messages of A's user and of the guest, and
\* acknowledgments for any id
NextSession ==
  \/ \E k \in IssuedKeys : create_chat_link(A, normalize_chat_id(A, B), k)
  \/ \E k \in IssuedKeys : revoke_chat_key(A, k)
  \/ \E ch \in UiChannels : \E k \in AuthKeys : ws_auth_with_key(A, ch, k)
  \/ \E ch \in UiChannels : ws_browser_message(A, ch)
  \/ \E ch \in UiChannels : ws_heartbeat(A, ch)
  \/ \E ch \in UiChannels : ws_invalid_frame(A, ch)
  \/ send_message(A, normalize_chat_id(A, B))
  \/ \E id \in 1..MaxMsgs : message_ack(A, id)

SpecSession == Init /\ [][NextSession]_vars

\* Guests: two channels at A that connect as UI sessions or as guests, and
\* what A sends its sessions: the chat of a message of A's user, presence
NextGuest ==
  \/ \E k \in IssuedKeys : create_chat_link(A, normalize_chat_id(A, B), k)
  \/ \E k \in IssuedKeys : revoke_chat_key(A, k)
  \/ \E ch \in UiChannels : \E k \in AuthKeys : ws_auth_with_key(A, ch, k)
  \/ \E ch \in UiChannels : ws_browser_message(A, ch)
  \/ \E ch \in UiChannels : ws_heartbeat(A, ch)
  \/ \E ch \in UiChannels : \E status \in {"active", "inactive"} :
       ws_update_status(A, ch, status)
  \/ \E id \in ChatIdInputs : send_message(A, id)

SpecGuest == Init /\ [][NextGuest]_vars

\* The positions of a store whose message differs in the next state
Changed(n) ==
  {p \in Stored(chats[n]) :
     \/ p \notin Stored(chats'[n])
     \/ chats'[n][p[1]].messages[p[2]] # chats[n][p[1]].messages[p[2]]}

\* No message of node n's store with this id has n as its sender
NeverSent(n, id) ==
  \A c \in DOMAIN chats[n] : OwnWithId(chats[n][c], n, id) = {}

\* What receive_message_ack leaves alone when it finds nothing
AckChangesNothing ==
  /\ chats' = chats
  /\ delivery_queue' = delivery_queue
  /\ ws_connections' = ws_connections
  /\ browser_connections' = browser_connections
  /\ online_nodes' = online_nodes
  /\ active_connections' = active_connections
  /\ pushes' = NoPush

\* C13, as claimed: receive_message_ack for an id that this node never sent
\* returns "not found", changes neither the Chat Store nor the Delivery Queue
\* nor the session maps, and pushes nothing
C13_UnknownAckReturnsNotFound ==
  [][\A id \in 1..MaxMsgs :
       (message_ack(A, id) /\ NeverSent(A, id)) =>
         /\ AckReturned(A, id, "not found") \in history'
         /\ AckChangesNothing
  ]_vars

\* C13, amended: receive_message_ack for an id that this node never sent
\* returns Ok(()), as it does for an id it finds, changes neither the Chat
\* Store nor the Delivery Queue nor the session maps, and pushes nothing
C13_UnknownAckChangesNothing ==
  [][\A id \in 1..MaxMsgs :
       (message_ack(A, id) /\ NeverSent(A, id)) =>
         /\ AckReturned(A, id, "Ok") \in history'
         /\ AckChangesNothing
  ]_vars

\* A, with a session registered, has answered an acknowledgment for the id of
\* a message it holds but did not send (the guest's)
C13_Witness ==
  /\ ws_connections[A] # <<>>
  /\ \E id \in 1..MaxMsgs :
       /\ AckReturned(A, id, "Ok") \in history
       /\ NeverSent(A, id)
       /\ \E c \in DOMAIN chats[A] : HasId(chats[A][c].messages, id)

\* C14: receive_message_ack(id) changes at most one stored message, one whose
\* id is id and whose sender is the local node, and changes only its status;
\* a message of another sender is never changed, whatever its id
C14_AckTouchesOnlyOwnMessage ==
  [][\A id \in 1..MaxMsgs :
       message_ack(A, id) =>
         /\ Cardinality(Changed(A)) <= 1
         /\ DOMAIN chats'[A] = DOMAIN chats[A]
         /\ chats'[B] = chats[B]
         /\ \A p \in Changed(A) :
              LET before == chats[A][p[1]].messages[p[2]]
              IN /\ before.id = id
                 /\ before.sender = A
                 /\ p \in Stored(chats'[A])
                 /\ chats'[A][p[1]].messages[p[2]] =
                      [before EXCEPT !.status = "Delivered"]
  ]_vars

\* A has answered acknowledgments for its own message, now Delivered, and for
\* the guest's message, still Sent
C14_Witness ==
  \E c \in DOMAIN chats[A] : \E i, j \in 1..Len(chats[A][c].messages) :
    LET own == chats[A][c].messages[i]
        other == chats[A][c].messages[j]
    IN /\ own.sender = A /\ own.status = "Delivered"
       /\ AckReturned(A, own.id, "Ok") \in history
       /\ other.sender = GuestName /\ other.status = "Sent"
       /\ AckReturned(A, other.id, "Ok") \in history

\* The chat a channel's first AuthWithKey binds it to, if the key is known
BoundChats(keys, chat_key) ==
  IF chat_key \in DOMAIN keys THEN {keys[chat_key].chat_id} ELSE {}

\* C16: a channel whose first frame was AuthWithKey is sent no ChatUpdate and
\* no NewMessage of a chat other than the one its key is bound to, and no
\* StatusUpdate, neither in the step in which it connects nor in a later one
C16_GuestReceivesOnlyItsChat ==
  [][\A e \in history' :
       e.ev = "guest" =>
         LET n == e.node
             ch == e.id
             bound == BoundChats(chat_keys'[n], e.kind)
         IN ch \in DOMAIN pushes'[n] =>
              \A i \in 1..Len(pushes'[n][ch]) :
                LET event == pushes'[n][ch][i]
                IN /\ event.kind = "ChatUpdate" => event.ref \in bound
                   /\ event.kind = "NewMessage" =>
                        \A c \in DOMAIN chats'[n] :
                          HasId(chats'[n][c].messages, event.ref) => c \in bound
                   /\ event.kind # "StatusUpdate"
  ]_vars

\* C17: no channel is both a key of ws_connections and a value of
\* browser_connections, and a channel whose first frame was AuthWithKey is not
\* a key of ws_connections
C17_ClassifiedOnce ==
  /\ \A n \in Node : DOMAIN ws_connections[n] \cap Range(browser_connections[n]) = {}
  /\ \A e \in history : e.ev = "guest" => e.id \notin DOMAIN ws_connections[e.node]

\* C18: AuthWithKey with a revoked key is answered AuthFailed "Chat key has
\* been revoked", and with an unknown key AuthFailed; browser_connections is
\* as it was and the channel stays registered
C18_RevokedKeyIsRefused ==
  [][\A ch \in UiChannels : \A k \in AuthKeys :
       (/\ ws_auth_with_key(A, ch, k)
        /\ (k \notin DOMAIN chat_keys[A] \/ chat_keys[A][k].is_revoked)) =>
         /\ ch \in DOMAIN pushes'[A]
         /\ LET reply == pushes'[A][ch][Len(pushes'[A][ch])]
            IN /\ reply.kind = "AuthFailed"
               /\ k \in DOMAIN chat_keys[A] => reply.ref = "Chat key has been revoked"
         /\ \A i \in 1..Len(pushes'[A][ch]) : pushes'[A][ch][i].kind # "AuthSuccess"
         /\ browser_connections' = browser_connections
         /\ ch \in DOMAIN ws_connections'[A] \cup Range(browser_connections'[A])
  ]_vars

\* Channel 1 is bound to key k1, which has since been revoked, and channel 2
\* has just been refused with that key
C18_Witness ==
  /\ "k1" \in DOMAIN browser_connections[A]
  /\ browser_connections[A]["k1"] = 1
  /\ chat_keys[A]["k1"].is_revoked
  /\ 2 \in DOMAIN pushes[A]
  /\ pushes[A][2][Len(pushes[A][2])] = AuthFailed("Chat key has been revoked")

\* C20: a Text frame that does not parse is answered with an Error sent to its
\* channel only; ws_connections, browser_connections, active_connections, the
\* Chat Store and the Delivery Queue are as they were, so a channel that was
\* in neither map still is
C20_InvalidFrameChangesNothing ==
  [][\A ch \in UiChannels :
       ws_invalid_frame(A, ch) =>
         /\ DOMAIN pushes'[A] = {ch}
         /\ pushes'[A][ch] = <<ErrorReply>>
         /\ ws_connections' = ws_connections
         /\ browser_connections' = browser_connections
         /\ active_connections' = active_connections
         /\ chats' = chats
         /\ delivery_queue' = delivery_queue
  ]_vars

\* Channel 2, in neither map while channel 1 is registered, has just been
\* sent the Error
C20_Witness ==
  /\ 1 \in DOMAIN ws_connections[A]
  /\ 2 \notin DOMAIN ws_connections[A] \cup Range(browser_connections[A])
  /\ DOMAIN pushes[A] = {2}
  /\ pushes[A][2] = <<ErrorReply>>

----------------------------------------------------------------------------
(* Transport close: a Close frame for a channel *)

ws_close_keeping_bindings(n, ch) ==
  LET was_registered == ch \in DOMAIN ws_connections[n]
      remaining == Drop(ws_connections[n], ch)
  IN /\ ws_connections' = [ws_connections EXCEPT ![n] = remaining]
     /\ online_nodes' =
          IF was_registered
            THEN [online_nodes EXCEPT ![n] = @ \ {ws_connections[n][ch]}]
            ELSE online_nodes
     /\ pushes' =
          IF was_registered
            THEN [NoPush EXCEPT ![n] =
                    [c \in DOMAIN remaining |->
                       <<StatusUpdate(ws_connections[n][ch], "offline")>>]]
            ELSE NoPush
     /\ active_connections' = [active_connections EXCEPT ![n] = @ \ {ch}]
     /\ UNCHANGED <<browser_connections, chat_keys, chats, delivery_queue, tasks,
                    reachable, clock, history, timeouts>>
     /\ UNCHANGED_pure

ws_close_leaving_it_active(n, ch) ==
  LET was_registered == ch \in DOMAIN ws_connections[n]
      remaining == Drop(ws_connections[n], ch)
      bound == {k \in DOMAIN browser_connections[n] : browser_connections[n][k] # ch}
  IN /\ ws_connections' = [ws_connections EXCEPT ![n] = remaining]
     /\ online_nodes' =
          IF was_registered
            THEN [online_nodes EXCEPT ![n] = @ \ {ws_connections[n][ch]}]
            ELSE online_nodes
     /\ pushes' =
          IF was_registered
            THEN [NoPush EXCEPT ![n] =
                    [c \in DOMAIN remaining |->
                       <<StatusUpdate(ws_connections[n][ch], "offline")>>]]
            ELSE NoPush
     /\ browser_connections' =
          [browser_connections EXCEPT ![n] = [k \in bound |-> @[k]]]
     /\ UNCHANGED <<active_connections, chat_keys, chats, delivery_queue, tasks,
                    reachable, clock, history, timeouts>>
     /\ UNCHANGED_pure

\* websocket, a Close frame: a channel of ws_connections is removed, its
\* identity leaves online_nodes and broadcast_to_all sends the offline
\* StatusUpdate to the keys that remain; then every key bound to the channel
\* leaves browser_connections and the channel leaves active_connections
ws_close(n, ch) ==
  LET was_registered == ch \in DOMAIN ws_connections[n]
      remaining == Drop(ws_connections[n], ch)
      bound == {k \in DOMAIN browser_connections[n] : browser_connections[n][k] # ch}
  IN /\ ws_connections' = [ws_connections EXCEPT ![n] = remaining]
     /\ online_nodes' =
          IF was_registered
            THEN [online_nodes EXCEPT ![n] = @ \ {ws_connections[n][ch]}]
            ELSE online_nodes
     /\ pushes' =
          IF was_registered
            THEN [NoPush EXCEPT ![n] =
                    [c \in DOMAIN remaining |->
                       <<StatusUpdate(ws_connections[n][ch], "offline")>>]]
            ELSE NoPush
     /\ browser_connections' =
          [browser_connections EXCEPT ![n] = [k \in bound |-> @[k]]]
     /\ active_connections' = [active_connections EXCEPT ![n] = @ \ {ch}]
     /\ UNCHANGED <<chat_keys, chats, delivery_queue, tasks, reachable, clock,
                    history, timeouts>>
     /\ UNCHANGED_pure

\* Connections: two channels at A that connect as UI sessions or as guests with
\* the key of chat a:b, declare themselves active or inactive, and close
NextClose ==
  \/ \E k \in IssuedKeys : create_chat_link(A, normalize_chat_id(A, B), k)
  \/ \E ch \in UiChannels : \E k \in AuthKeys : ws_auth_with_key(A, ch, k)
  \/ \E ch \in UiChannels : ws_heartbeat(A, ch)
  \/ \E ch \in UiChannels : \E status \in {"active", "inactive"} :
       ws_update_status(A, ch, status)
  \/ \E ch \in UiChannels : ws_close(A, ch)

SpecClose == Init /\ [][NextClose]_vars

\* The bindings of a channel: its identity in ws_connections, the keys bound
\* to it in browser_connections, whether it is in active_connections
BindingsOf(conns, browsers, active, ch) ==
  <<IF ch \in DOMAIN conns THEN {conns[ch]} ELSE {},
    {k \in DOMAIN browsers : browsers[k] = ch},
    ch \in active>>

\* C21: after a Close frame for channel c, c is not a key of ws_connections,
\* not a value of browser_connections and not in active_connections; if c was
\* a key of ws_connections its identity is not in online_nodes and the offline
\* StatusUpdate is pushed to every channel that remains in ws_connections; the
\* bindings of the other channels are as they were
C21_CloseRemovesTheChannel ==
  [][\A c \in UiChannels :
       ws_close(A, c) =>
         /\ c \notin DOMAIN ws_connections'[A]
         /\ c \notin Range(browser_connections'[A])
         /\ c \notin active_connections'[A]
         /\ c \in DOMAIN ws_connections[A] =>
              /\ ws_connections[A][c] \notin online_nodes'[A]
              /\ \A other \in DOMAIN ws_connections'[A] :
                   /\ other \in DOMAIN pushes'[A]
                   /\ pushes'[A][other] =
                        <<StatusUpdate(ws_connections[A][c], "offline")>>
         /\ \A other \in UiChannels \ {c} :
              BindingsOf(ws_connections'[A], browser_connections'[A],
                         active_connections'[A], other)
                = BindingsOf(ws_connections[A], browser_connections[A],
                             active_connections[A], other)
  ]_vars

\* Channel 1, in neither map and not active, has just been closed while
\* registered: channel 2, still registered, was sent the offline StatusUpdate
C21_Witness ==
  /\ 1 \notin DOMAIN ws_connections[A] \cup Range(browser_connections[A])
  /\ 1 \notin active_connections[A]
  /\ 2 \in DOMAIN ws_connections[A]
  /\ DOMAIN pushes[A] = {2}
  /\ pushes[A][2] = <<StatusUpdate(A, "offline")>>
  /\ "k1" \in DOMAIN chat_keys[A]

----------------------------------------------------------------------------
(* Chat keys: create_chat_link, revoke_chat_key and get_chat_keys *)

KeyInputs == {"k1", "k2"}

get_chat_keys_unfiltered(n) ==
  /\ keys_listed' = Range(chat_keys[n])
  /\ pushes' = NoPush
  /\ UNCHANGED <<status_calls, norm_in, norm_out>>
  /\ UNCHANGED <<chats, delivery_queue, queue_lock, wsvars, settings, tasks,
                 reachable, clock, history, timeouts>>

\* get_chat_keys: the values of chat_keys whose is_revoked is false
get_chat_keys(n) ==
  /\ keys_listed' = {k \in Range(chat_keys[n]) : ~k.is_revoked}
  /\ pushes' = NoPush
  /\ UNCHANGED <<status_calls, norm_in, norm_out>>
  /\ UNCHANGED <<chats, delivery_queue, queue_lock, wsvars, settings, tasks,
                 reachable, clock, history, timeouts>>

\* Keys: two keys of A that are issued for either chat, revoked and listed,
\* guests of channel 1 that connect with them and close, and the deletion of a
\* chat that a key is bound to
NextKeys ==
  \/ \E k \in KeyInputs : \E id \in ChatIdInputs : create_chat_link(A, id, k)
  \/ \E k \in KeyInputs : revoke_chat_key(A, k)
  \/ get_chat_keys(A)
  \/ \E ch \in Channel : \E k \in KeyInputs : ws_auth_with_key(A, ch, k)
  \/ \E ch \in Channel : ws_close(A, ch)
  \/ \E id \in ChatIdInputs : delete_chat(A, id)

SpecKeys == Init /\ [][NextKeys]_vars

----------------------------------------------------------------------------
(* Deletion after a delivery: from the state in which A's message 1 has been   *)
(* delivered to B, either node deletes the message or the chat, with sessions  *)
(* of either node registered or not and B answering or not                     *)

NextDelete ==
  \/ \E n \in Node : \E id \in MessageIds : \E both \in OptionBool :
       delete_message(n, normalize_chat_id(A, B), id, both)
  \/ \E n \in Node : delete_chat(n, normalize_chat_id(A, B))
  \/ \E t \in tasks : receive_message_deletion(t)
  \/ \E n \in Node : \E ch \in Channel : ws_heartbeat(n, ch)
  \/ goes_offline(B)
  \/ comes_online(B)

SpecDelete == InitReact /\ [][NextDelete]_vars

\* C23: delete_message sends the deletion request to the chat's counterparty
\* when delete_for_both is Some(true) and sends nothing when it is Some(false)
\* or absent; delete_chat sends nothing; neither changes the Chat Store of the
\* other node
C23_DeletionPropagatesOnlyWhenAsked ==
  [][\A n \in Node :
       LET chat_id == normalize_chat_id(A, B)
       IN /\ \A id \in MessageIds : \A both \in OptionBool :
               delete_message(n, chat_id, id, both) =>
                 /\ \A other \in Node \ {n} : chats'[other] = chats[other]
                 /\ IF both = <<TRUE>>
                      THEN \E t \in tasks' :
                             /\ tasks' = tasks \cup {t}
                             /\ t.kind = "deletion" /\ t.stage = "req"
                             /\ t.target = chats[n][chat_id].counterparty
                             /\ t.msg.id = id /\ t.chat = chat_id
                      ELSE tasks' = tasks
          /\ delete_chat(n, chat_id) =>
               /\ \A other \in Node \ {n} : chats'[other] = chats[other]
               /\ tasks' = tasks
  ]_vars

\* A has deleted its message 1 for both sides: the request to B is on its
\* way, and B still holds the message
C23_Witness ==
  LET chat_id == normalize_chat_id(A, B)
  IN /\ chat_id \in DOMAIN chats[A] /\ chat_id \in DOMAIN chats[B]
     /\ ~HasId(chats[A][chat_id].messages, 1)
     /\ HasId(chats[B][chat_id].messages, 1)
     /\ \E t \in tasks : /\ t.kind = "deletion" /\ t.node = A /\ t.target = B
                          /\ t.msg.id = 1 /\ t.stage = "req"

----------------------------------------------------------------------------
(* The background sweep under fair scheduling: the loop wakes every 30 s, and  *)
(* a request that can be handled, or an RPC that can return, eventually is     *)

FairSweep ==
  /\ WF_vars(sweep_start(A))
  /\ WF_vars(\E t \in tasks : sweep_returns(t))
  /\ WF_vars(\E t \in tasks : send_message_returns(t))
  /\ WF_vars(\E t \in tasks : receive_message(t))
  /\ WF_vars(\E t \in tasks : receive_message_ack(t))

SpecSweepFair == Init /\ [][NextSweep]_vars /\ FairSweep

\* B holds a message with this id
HeldByB(id) ==
  \E c \in DOMAIN chats[B] : HasId(chats[B][c].messages, id)

\* A delivery RPC of A for this message has returned Ok
DeliveredByA(id) ==
  \E e \in history : e.ev = "ok" /\ e.node = A /\ e.id = id

\* C24: if B answers from some point on, then A's Delivery Queue eventually
\* has no entry for B and keeps none once no message is enqueued any more, and
\* every message that was in the entry at that point is eventually out of the
\* queue, a delivery of it to B having returned Ok
C24_ReachablePeerIsDrained ==
  /\ <>[](B \in reachable) => <>[](B \notin DOMAIN delivery_queue[A])
  /\ \A id \in 1..MaxMsgs :
       []((id \in QueuedIds(delivery_queue[A], B) /\ [](B \in reachable))
            => <>(id \notin QueuedIds(delivery_queue[A], B) /\ DeliveredByA(id)))

\* Two messages were queued for B; the sweep has delivered both, one per
\* round, and the entry is gone
C24_Witness ==
  /\ B \notin DOMAIN delivery_queue[A]
  /\ \A id \in 1..MaxMsgs :
       /\ DeliveredOk("sweep", A, id) \in history
       /\ HeldByB(id)

----------------------------------------------------------------------------
(* Properties of the sweep, round by round.  The round of a sweep is the       *)
(* chain of its attempts: each carries what is left of the round's snapshot    *)

SweepOf(set) == {t \in set : t.kind = "sweep"}

\* C25: the first attempt of a round is for the head of an entry of the queue
\* as it is when the round starts; each later attempt of the round is for the
\* head of an entry of the snapshot that no attempt of the round was made to;
\* an attempt that fails leaves the queue as it is and is followed, if at all,
\* by an attempt to another counterparty
C25_OneHeadAttemptPerPeerAndRound ==
  [][/\ \A next \in SweepOf(tasks') \ SweepOf(tasks) :
          /\ next.stage = "req" =>
               IF SweepOf(tasks) = {}
                 THEN /\ next.target \in DOMAIN delivery_queue[A]
                      /\ next.msg = Head(delivery_queue[A][next.target])
                      /\ next.snap = Drop(delivery_queue[A], next.target)
                 ELSE \A t \in SweepOf(tasks) :
                        /\ next.target \in DOMAIN t.snap
                        /\ next.target # t.target
                        /\ next.msg = Head(t.snap[next.target])
                        /\ next.snap = Drop(t.snap, next.target)
          /\ next.target \notin DOMAIN next.snap
     /\ Cardinality(SweepOf(tasks')) <= 1
     /\ \A t \in SweepOf(tasks) :
          (sweep_returns(t) /\ ~Answers(t.target)) =>
            delivery_queue' = delivery_queue
  ]_vars

\* Two messages are queued for B, which does not answer; the round tries B's
\* head, message 1, and its snapshot holds no other entry
C25_Witness ==
  /\ B \notin reachable
  /\ B \in DOMAIN delivery_queue[A]
  /\ IdsOf(delivery_queue[A][B]) = <<1, 2>>
  /\ \E t \in SweepOf(tasks) :
       /\ t.target = B /\ t.msg.id = 1 /\ t.stage = "req"
       /\ t.snap = <<>>

\* C26: while A's queue entry for B is non-empty, every delivery attempt that
\* A starts to B is for the head of the entry, and the messages B holds are in
\* the order of their creation
C26_OnlyTheHeadIsAttempted ==
  [][/\ \A next \in tasks' \ tasks :
          (/\ next.kind \in DeliveryKinds /\ next.stage = "req" /\ next.node = A
           /\ next.target = B /\ B \in DOMAIN delivery_queue[A]
           /\ delivery_queue[A][B] # <<>>) =>
            next.msg.id = Head(delivery_queue[A][next.target]).id
     /\ \A c \in DOMAIN chats'[B] :
          \A i, j \in 1..Len(chats'[B][c].messages) :
            i < j => chats'[B][c].messages[i].id <= chats'[B][c].messages[j].id
  ]_vars

----------------------------------------------------------------------------
(* The Mutex of the delivery queue: a request handler that awaits its RPC, the *)
(* announce-triggered flush and the sweep, with B not answering at first       *)

InitLock ==
  /\ chats = [n \in Node |-> Put(<<>>, SystemWelcome, WelcomeChat)]
  /\ delivery_queue = [n \in Node |-> <<>>]
  /\ queue_lock = [n \in Node |-> "free"]
  /\ ws_connections = [n \in Node |-> <<>>]
  /\ online_nodes = [n \in Node |-> {}]
  /\ browser_connections = [n \in Node |-> <<>>]
  /\ chat_keys = [n \in Node |-> <<>>]
  /\ active_connections = [n \in Node |-> {}]
  /\ settings = [n \in Node |-> DefaultSettings]
  /\ tasks = {}
  /\ reachable = {A}
  /\ clock = 0
  /\ pushes = NoPush
  /\ history = {}
  /\ timeouts = 0
  /\ PureIdle

NextLock ==
  \/ forward_message(A, normalize_chat_id(A, B))
  \/ create_chat(B, A)
  \/ \E t \in tasks : receive_chat_creation(t)
  \/ \E t \in tasks : receive_message(t)
  \/ \E t \in tasks : receive_message_ack(t)
  \/ \E t \in tasks : inline_returns(t)
  \/ \E t \in tasks : flush_returns(t)
  \/ sweep_start(A)
  \/ \E t \in tasks : sweep_returns(t)
  \/ comes_online(B)

SpecLock == InitLock /\ [][NextLock]_vars

----------------------------------------------------------------------------
(* The sweep and the announce-triggered flush side by side *)

NextRace ==
  \/ send_message(A, normalize_chat_id(A, B))
  \/ create_chat(B, A)
  \/ \E t \in tasks : receive_chat_creation(t)
  \/ \E t \in tasks : receive_message(t)
  \/ \E t \in tasks : receive_message_ack(t)
  \/ \E t \in tasks : send_message_returns(t)
  \/ \E t \in tasks : flush_returns(t)
  \/ sweep_start(A)
  \/ \E t \in tasks : sweep_returns(t)
  \/ goes_offline(B)
  \/ comes_online(B)

SpecRace == Init /\ [][NextRace]_vars

\* C28: a message enters A's queue entry for B only in a step in which a
\* delivery attempt for that message fails, and a message for which a delivery
\* attempt has returned Ok never enters it
C28_RequeuedOnlyAfterAFailure ==
  [][\A id \in 1..MaxMsgs :
       (/\ id \in QueuedIds(delivery_queue'[A], B)
        /\ id \notin QueuedIds(delivery_queue[A], B)) =>
         /\ \E t \in tasks \ tasks' :
              /\ t.kind \in DeliveryKinds /\ t.node = A /\ t.target = B
              /\ t.msg.id = id
              /\ ~Answers(B)
         /\ ~DeliveredByA(id)
  ]_vars

\* C29: at every node, every counterparty that is a key of the Delivery Queue
\* maps to a non-empty list of messages
C29_NoEmptyQueueEntry ==
  \A n \in Node : \A c \in DOMAIN delivery_queue[n] : delivery_queue[n][c] # <<>>

\* The sweep has delivered a message that was queued for B and B has no entry
\* left in A's queue
C29_Witness ==
  /\ \E e \in history : e.ev = "ok" /\ e.kind = "sweep" /\ e.node = A
  /\ B \notin DOMAIN delivery_queue[A]

----------------------------------------------------------------------------
(* Push notifications: inbound messages while UI sessions come and go *)

\* The settings a UI client submits
SettingsInputs == {[notify_chats |-> TRUE], [notify_chats |-> FALSE]}

\* update_settings(settings): self.settings = settings
update_settings(n, new_settings) ==
  /\ settings' = [settings EXCEPT ![n] = new_settings]
  /\ pushes' = NoPush
  /\ UNCHANGED <<chats, delivery_queue, queue_lock, tasks, reachable, clock,
                 history, timeouts>>
  /\ UNCHANGED_ws
  /\ UNCHANGED purevars

\* The status strings a session sends in UpdateStatus
StatusInputs == {"active", "inactive", "away"}

\* Notifications: A is handed messages by B while its two channels declare
\* themselves active, inactive or away and close, and its user changes the
\* settings
NextNotify ==
  \/ inbound_message(A, B, "Sent")
  \/ \E t \in tasks : receive_message(t)
  \/ \E t \in tasks : receive_message_ack(t)
  \/ \E t \in tasks : inbound_returns(t)
  \/ \E ch \in UiChannels : \E status \in StatusInputs :
       ws_update_status(A, ch, status)
  \/ \E ch \in UiChannels : ws_close(A, ch)
  \/ \E s \in SettingsInputs : update_settings(A, s)

SpecNotify == Init /\ [][NextNotify]_vars

\* The push notifications dispatched so far for messages handed to A
Notified == {e \in history : e.ev = "notification" /\ e.node = A}

\* C30: a step of receive_message at A dispatches a push notification only if
\* active_connections is empty and the chat's notify and settings.notify_chats
\* are both true; a channel enters active_connections when it declares itself
\* active and leaves it only by declaring itself inactive or by a Close frame,
\* so while a session that declared itself active has not gone inactive or
\* closed, no step dispatches a push notification
C30_NotificationOnlyWhenNobodyIsActive ==
  [][/\ \A e \in Notified' \ Notified :
          /\ active_connections[A] = {}
          /\ settings[A].notify_chats
          /\ \E t \in tasks :
               /\ receive_message(t) /\ t.target = A /\ t.msg.id = e.id
               /\ chats'[A][normalize_chat_id(t.msg.sender, A)].notify
     /\ \A ch \in UiChannels :
          /\ ws_update_status(A, ch, "active") => ch \in active_connections'[A]
          /\ (ch \in active_connections[A] /\ ch \notin active_connections'[A])
               => ws_update_status(A, ch, "inactive") \/ ws_close(A, ch)
          /\ ch \in active_connections[A] => Notified' = Notified
  ]_vars

\* A holds two messages of B: a notification was dispatched for the first and
\* none for the second, a session is counted active and notify_chats is on
C30_Witness ==
  /\ \E c \in DOMAIN chats[A] :
       /\ Len(chats[A][c].messages) = 2
       /\ \E e \in Notified : e.id = chats[A][c].messages[1].id
       /\ \A e \in Notified : e.id # chats[A][c].messages[2].id
  /\ active_connections[A] # {}
  /\ settings[A].notify_chats

----------------------------------------------------------------------------
(* Remote deletion: A sends messages to B and deletes them for both sides,     *)
(* while B deletes messages or the chat on its own and has a session or not    *)

NextRemote ==
  \/ send_message(A, normalize_chat_id(A, B))
  \/ \E t \in tasks : receive_message(t)
  \/ \E t \in tasks : receive_message_ack(t)
  \/ \E t \in tasks : send_message_returns(t)
  \/ \E id \in MessageIds : delete_message(A, normalize_chat_id(A, B), id, <<TRUE>>)
  \/ \E id \in MessageIds : delete_message(B, normalize_chat_id(A, B), id, <<>>)
  \/ delete_chat(B, normalize_chat_id(A, B))
  \/ \E t \in tasks : receive_message_deletion(t)
  \/ \E ch \in Channel : ws_heartbeat(B, ch)

SpecRemote == Init /\ [][NextRemote]_vars

\* msgs without its element at position pos
WithoutAt(msgs, pos) ==
  SubSeq(msgs, 1, pos - 1) \o SubSeq(msgs, pos + 1, Len(msgs))

\* C31: receive_message_deletion(message_id, chat_id) at n removes one message
\* with that id from the named chat, leaves the chat's other messages and
\* fields, every other chat, the other node's store and the Delivery Queue as
\* they were, and pushes the chat to n's sessions; when the chat or the
\* message is absent the call is answered with the Chat Store, the queue and
\* the session state unchanged and nothing pushed
C31_RemoteDeletionRemovesOneMessage ==
  [][\A t \in tasks :
       LET n == t.target
           c == t.chat
           id == t.msg.id
       IN receive_message_deletion(t) =>
            /\ delivery_queue' = delivery_queue
            /\ t \notin tasks'
            /\ IF c \in DOMAIN chats[n] /\ HasId(chats[n][c].messages, id)
                 THEN /\ \E pos \in 1..Len(chats[n][c].messages) :
                           /\ chats[n][c].messages[pos].id = id
                           /\ chats' = [chats EXCEPT ![n][c].messages =
                                          WithoutAt(@, pos)]
                      /\ \A ch \in DOMAIN ws_connections[n] :
                           pushes'[n][ch] = <<ChatUpdate(c)>>
                 ELSE /\ chats' = chats
                      /\ pushes'[n] = <<>>
                      /\ UNCHANGED wsvars
  ]_vars

\* B, with a session open, has handled A's deletion request for message 2 and
\* still holds message 1, which A holds too
C31_Witness ==
  LET c == normalize_chat_id(A, B)
  IN /\ c \in DOMAIN chats[A] /\ c \in DOMAIN chats[B]
     /\ IdsOf(chats[A][c].messages) = <<1>>
     /\ IdsOf(chats[B][c].messages) = <<1>>
     /\ 1 \in DOMAIN ws_connections[B]
     /\ pushes[B] # <<>> /\ pushes[B][1] = <<ChatUpdate(c)>>
     /\ clock = 2
     /\ \A t \in tasks : t.kind # "deletion"

----------------------------------------------------------------------------
(* The acknowledgment that overtakes the reply of the send it acknowledges *)

\* The statuses of A's stored copies of its message `id`
OwnStatuses(store, id) ==
  {store[c].messages[i].status :
     <<c, i>> \in {p \in Stored(store) : /\ store[p[1]].messages[p[2]].id = id
                                         /\ store[p[1]].messages[p[2]].sender = A}}

\* C32: when B's acknowledgment of a message of A is handled at A while A's
\* copy is Sending, Sent or Delivered, the copy is Delivered afterwards (so a
\* second acknowledgment leaves it Delivered); and when the delivery RPC for a
\* message whose copy is already Delivered then returns Ok, the request to set
\* Sent leaves the copy Delivered
C32_AckBeforeReplyStaysDelivered ==
  [][\A t \in tasks :
       (t.kind \in DeliveryKinds /\ t.node = A) =>
         LET before == OwnStatuses(chats[A], t.msg.id)
             after == OwnStatuses(chats'[A], t.msg.id)
         IN /\ (/\ receive_message_ack(t)
                /\ before # {} /\ before \subseteq {"Sending", "Sent", "Delivered"})
                 => after = {"Delivered"}
            /\ (/\ inline_returns(t) \/ send_message_returns(t)
                     \/ sweep_returns(t) \/ flush_returns(t)
                /\ ReturnsOk(t)
                /\ before = {"Delivered"})
                 => after = {"Delivered"}
  ]_vars

\* forward_message at A has returned Ok for a message that B acknowledged
\* before replying, and A's copy of it is Delivered
C32_Witness ==
  \E e \in history :
    /\ e.ev = "ok" /\ e.kind = "forward_message" /\ e.node = A
    /\ OwnStatuses(chats[A], e.id) = {"Delivered"}
    /\ B \notin DOMAIN delivery_queue[A]

\* C33: B's store never holds two messages with the same id, whatever the
\* interleaving of A's sweep and of the flush that B's announcement triggers
C33_DeliveredAtMostOnce ==
  \A c \in DOMAIN chats[B] :
    \A i, j \in 1..Len(chats[B][c].messages) :
      chats[B][c].messages[i].id = chats[B][c].messages[j].id => i = j

----------------------------------------------------------------------------
(* The status of a message that was delivered from the queue *)

\* C34: once a delivery from the queue (by the sweep or by the flush) of a
\* message of A has returned Ok, B having acknowledged it, A's copy of the
\* message is Delivered, whichever handler created the message
C34_DeliveredFromTheQueueIsDelivered ==
  \A e \in history :
    (e.ev = "ok" /\ e.kind \in {"sweep", "flush"} /\ e.node = A) =>
      OwnStatuses(chats[A], e.id) \subseteq {"Delivered"}

----------------------------------------------------------------------------
(* Chats created implicitly by a send, on either node *)

\* Implicit: the user of either node sends into chat a:b, which the node may
\* not hold yet
NextImplicit ==
  \/ \E n \in Node : send_message(n, normalize_chat_id(A, B))
  \/ \E n \in Node : forward_message(n, normalize_chat_id(A, B))
  \/ \E n \in Node : upload_file(n, normalize_chat_id(A, B))
  \/ \E n \in Node : send_voice_note(n, normalize_chat_id(A, B))
  \/ \E t \in tasks : receive_message(t)
  \/ \E t \in tasks : receive_message_ack(t)
  \/ \E t \in tasks : send_message_returns(t)
  \/ \E t \in tasks : inline_returns(t)

SpecImplicit == Init /\ [][NextImplicit]_vars

\* C35: on either node the chat stored under the normalized id of the two
\* nodes has the other node as its counterparty, and every delivery RPC is
\* addressed to a node other than the one that sends it
C35_ImplicitChatNamesThePeer ==
  /\ \A n \in Node :
       normalize_chat_id(A, B) \in DOMAIN chats[n] =>
         chats[n][normalize_chat_id(A, B)].counterparty \in Node \ {n}
  /\ \A t \in tasks : t.kind \in DeliveryKinds => t.target # t.node

----------------------------------------------------------------------------
(* Guests and revoked keys *)

\* C36: a BrowserMessage appends a message only for a channel bound to a key
\* that is not revoked, and AuthWithKey with a revoked key binds nothing
C36_RevokedKeyAppendsNothing ==
  [][\A ch \in UiChannels :
       /\ (ws_browser_message(A, ch) /\ chats' # chats) =>
            \E k \in KeysOf(A, ch) :
              k \in DOMAIN chat_keys[A] /\ ~chat_keys[A][k].is_revoked
       /\ \A k \in AuthKeys :
            (/\ ws_auth_with_key(A, ch, k)
             /\ k \in DOMAIN chat_keys[A] /\ chat_keys[A][k].is_revoked) =>
              browser_connections' = browser_connections
  ]_vars

----------------------------------------------------------------------------
(* Guest links: the chats a key can be issued for *)

\* "browser:" and a chat id in that namespace
BrowserPrefix == <<98, 114, 111, 119, 115, 101, 114, 58>>
BrowserChat == BrowserPrefix \o <<107, 49>>

\* str::starts_with
starts_with(s, prefix) ==
  Len(s) >= Len(prefix) /\ SubSeq(s, 1, Len(prefix)) = prefix

\* The chat ids a UI client names in CreateChatLinkReq
LinkChatIds == ChatIdInputs \cup {BrowserChat}

\* Links: A's user issues keys for chats, writes into chat a:b, and two
\* channels connect as guests or as UI sessions and send guest messages
NextLink ==
  \/ \E k \in IssuedKeys : \E id \in LinkChatIds : create_chat_link(A, id, k)
  \/ \E ch \in UiChannels : \E k \in AuthKeys : ws_auth_with_key(A, ch, k)
  \/ \E ch \in UiChannels : ws_browser_message(A, ch)
  \/ \E ch \in UiChannels : ws_heartbeat(A, ch)
  \/ send_message(A, normalize_chat_id(A, B))

SpecLink == Init /\ [][NextLink]_vars

\* C37: every ChatKey is issued for a chat id that starts with "browser:"; an
\* AuthSuccess names only such a chat, and a BrowserMessage leaves every chat
\* outside that namespace as it was
C37_GuestsStayInTheBrowserNamespace ==
  [][/\ \A k \in DOMAIN chat_keys'[A] :
          starts_with(chat_keys'[A][k].chat_id, BrowserPrefix)
     /\ \A ch \in UiChannels :
          /\ ws_browser_message(A, ch) =>
               \A c \in DOMAIN chats'[A] :
                 ~starts_with(c, BrowserPrefix) =>
                   c \in DOMAIN chats[A] /\ chats'[A][c] = chats[A][c]
          /\ \A k \in AuthKeys :
               ws_auth_with_key(A, ch, k) =>
                 \A i \in 1..Len(pushes'[A][ch]) :
                   pushes'[A][ch][i].kind = "AuthSuccess" =>
                     starts_with(pushes'[A][ch][i].ref, BrowserPrefix)
  ]_vars

----------------------------------------------------------------------------
(* The acknowledgment of a WS SendMessage *)

\* C38: a MessageAck that a node has just sent a channel names a message that
\* one of the node's chats holds
C38_AckedMessageIsStored ==
  \A n \in Node : \A ch \in DOMAIN pushes[n] :
    \A i \in 1..Len(pushes[n][ch]) :
      pushes[n][ch][i].kind = "MessageAck" =>
        \E c \in DOMAIN chats[n] : HasId(chats[n][c].messages, pushes[n][ch][i].ref)

----------------------------------------------------------------------------
(* The channels counted active *)

\* C39: after every step the channels of active_connections are keys of
\* ws_connections, and a channel enters active_connections only in the step
\* that handles its own UpdateStatus "active"
C39_ActiveChannelsAreRegistered ==
  [][/\ active_connections'[A] \subseteq DOMAIN ws_connections'[A]
     /\ \A ch \in UiChannels :
          (ch \notin active_connections[A] /\ ch \in active_connections'[A])
            => ws_update_status(A, ch, "active")
  ]_vars

\* Channel 1 has just been closed: it is neither registered nor counted
\* active, while channel 2, which was told so, is both
C39_Witness ==
  /\ 1 \notin DOMAIN ws_connections[A]
  /\ active_connections[A] = {2}
  /\ 2 \in DOMAIN ws_connections[A]
  /\ pushes[A] # <<>> /\ 2 \in DOMAIN pushes[A]
  /\ pushes[A][2] = <<StatusUpdate(A, "offline")>>

----------------------------------------------------------------------------
(* WS SendMessage and the set of online nodes *)

\* C40: online_nodes stays empty at every node; a WS SendMessage of A's
\* session into a chat that A holds pushes no NewMessage to any channel,
\* appends the message, as it was created, to the end of the Delivery Queue
\* entry of the chat's counterparty, and stores it with status Sent
C40_WsSendAlwaysQueues ==
  [][/\ \A n \in Node : online_nodes'[n] = {}
     /\ \A ch \in Channel :
          LET c == normalize_chat_id(A, B)
              id == clock + 1
          IN (ws_send_message(A, ch, c) /\ c \in DOMAIN chats[A]) =>
               LET peer == chats[A][c].counterparty
                   was == IF peer \in DOMAIN delivery_queue[A]
                            THEN delivery_queue[A][peer] ELSE <<>>
               IN /\ \A k \in DOMAIN pushes'[A] :
                       \A i \in 1..Len(pushes'[A][k]) :
                         pushes'[A][k][i].kind # "NewMessage"
                  /\ peer \in DOMAIN delivery_queue'[A]
                  /\ delivery_queue'[A][peer] =
                       Append(was, ChatMessage(id, A, "Sending"))
                  /\ \A d \in DOMAIN delivery_queue[A] \ {peer} :
                       d \in DOMAIN delivery_queue'[A]
                         /\ delivery_queue'[A][d] = delivery_queue[A][d]
                  /\ OwnStatuses(chats'[A], id) = {"Sent"}
  ]_vars

\* A's session has sent message 2 into chat a:b while message 1 was queued
\* for B: B's entry holds 1 and then 2, the stored copy of 2 is Sent and the
\* session was sent the MessageAck
C40_Witness ==
  /\ B \in DOMAIN delivery_queue[A]
  /\ IdsOf(delivery_queue[A][B]) = <<1, 2>>
  /\ OwnStatuses(chats[A], 2) = {"Sent"}
  /\ pushes[A] # <<>> /\ 1 \in DOMAIN pushes[A]
  /\ \E i \in 1..Len(pushes[A][1]) : pushes[A][1][i] = MessageAck(2)

----------------------------------------------------------------------------
(* The status machine on its own: a log of calls with their results *)

update_status(current, new) ==
  /\ Len(status_calls) < MaxCalls
  /\ status_calls' = Append(status_calls,
       [current |-> current, requested |-> new,
        result |-> safe_update_message_status(current, new)])
  /\ UNCHANGED <<norm_in, norm_out, keys_listed>>
  /\ UNCHANGED sysvars

NextStatus ==
  \E current \in Status : \E new \in Status : update_status(current, new)

SpecStatus == Init /\ [][NextStatus]_vars

\* C2: safe_update_message_status called with a current status of Delivered or
\* Failed returns that current status, whatever status is requested
C2_TerminalIsKept ==
  \A i \in DOMAIN status_calls :
    status_calls[i].current \in Terminal =>
      status_calls[i].result = status_calls[i].current

\* Both terminal statuses have been asked to change and have answered
C2_Witness ==
  /\ Len(status_calls) = 2
  /\ status_calls[1].current = "Delivered" /\ status_calls[1].requested = "Failed"
  /\ status_calls[1].result = "Delivered"
  /\ status_calls[2].current = "Failed" /\ status_calls[2].requested = "Sending"
  /\ status_calls[2].result = "Failed"

\* C3: over all 16 pairs (current, requested), safe_update_message_status
\* returns the requested status exactly for Sending->Sent, Sending->Delivered,
\* Sending->Failed, Sent->Delivered, Sent->Failed, and the current status for
\* every other pair
C3_TransitionTable ==
  \A i \in DOMAIN status_calls :
    LET c == status_calls[i]
    IN c.result = IF <<c.current, c.requested>> \in Forward
                    THEN c.requested ELSE c.current

\* A forward pair out of Sent that was granted, after a backward pair that was
\* refused
C3_Witness ==
  /\ Len(status_calls) = 2
  /\ status_calls[1].current = "Sent" /\ status_calls[1].requested = "Sending"
  /\ status_calls[1].result = "Sent"
  /\ status_calls[2].current = "Sent" /\ status_calls[2].requested = "Failed"
  /\ status_calls[2].result = "Failed"

----------------------------------------------------------------------------
(* The chat-id normalisation on its own: two identity strings, then the ids   *)
(* computed for both orders of the arguments                                  *)

\* The bytes of '.', ':', 'a' and 'b'
Alphabet == {46, Colon, 97, 98}

Identities == UNION {[1..k -> Alphabet] : k \in 0..MaxIdLen}

InitNorm ==
  /\ SysInit
  /\ status_calls = <<>>
  /\ norm_in \in Identities \X Identities
  /\ norm_out = <<>>
  /\ keys_listed = {}

normalize ==
  /\ norm_out = <<>>
  /\ norm_out' = <<normalize_chat_id(norm_in[1], norm_in[2]),
                   normalize_chat_id(norm_in[2], norm_in[1])>>
  /\ UNCHANGED <<status_calls, norm_in, keys_listed>>
  /\ UNCHANGED sysvars

NextNorm == normalize

SpecNorm == InitNorm /\ [][NextNorm]_vars

\* C4: for any two identity strings a and b, normalize_chat_id(a, b) and
\* normalize_chat_id(b, a) are the same string
C4_OrderIndependent ==
  norm_out # <<>> => norm_out[1] = norm_out[2]

\* Two different identities given in descending order got one id, the smaller
\* identity first
C4_Witness ==
  /\ norm_in = <<B, A>>
  /\ norm_out = <<normalize_chat_id(A, B), normalize_chat_id(A, B)>>
  /\ norm_out[1] = <<97, Colon, 98>>

====
